---- MODULE Spec2Model ----
(***************************************************************************)
(* State-machine model of slchat.js (src/index.js): the request cache,     *)
(* the command registry, the inbound dispatch chain of Bot and the         *)
(* rate-limited outbound send.                                             *)
(*                                                                         *)
(* Node runs one macrotask at a time and drains every microtask it queued  *)
(* before the next one, so one action is one macrotask (a socket event, a  *)
(* network response, a timer, a call from user code) together with all the *)
(* promise continuations it triggers.                                      *)
(*                                                                         *)
(* Strings that the code slices and splits are sequences of one-character  *)
(* strings.                                                                *)
(***************************************************************************)
EXTENDS Integers, Sequences, FiniteSets, TLC

VARIABLES
    now,            \* Date.now()
    ticks,          \* number of clock advances so far
    prefix,         \* Bot.prefix
    hooks,          \* whether Bot.onError / onStart / onMessage throw when invoked
    commandDict,    \* module-level Map name -> handler, as a set of entries
    cmdCount,       \* number of command() calls so far
    store,          \* Cache.store: url -> entry
    inflight,       \* axios.get requests issued and not yet answered
    reqCount,       \* number of axios.get requests issued so far
    msgs,           \* one record per inbound socket event, in arrival order
    metrics,        \* Bot.performanceMetrics
    unhandled,      \* promises rejected with nobody awaiting them
    runState,       \* position of Bot.run
    serverIds,      \* Bot.serverIds
    sockets,        \* every socket created by _connectSocket, in order
    sioInstances,   \* Bot.sioInstances: server id -> index into sockets
    lastSent,       \* Bot.lastSent: server id -> time of last successful send
    emitted,        \* payloads handed to socket.emit("message"), in order
    lastCall,       \* the most recent Bot.send call and what it did
    conf,           \* Bot.autoReconnect and Bot.reconnectAttempts
    timers,         \* setTimeout calls of connect_error handlers, in call order
    fetches,        \* the getUser / getServer calls from user code
    lastJoin,       \* the most recent join call and what it did
    lastCommand,    \* the most recent command() call and what it did
    fmtCall,        \* the most recent formatMessage call and what it returned
    builder,        \* the fields of one EmbedBuilder
    builds          \* what build() returned, call by call, since the last setter

vars == <<now, ticks, prefix, hooks, commandDict, cmdCount, store, inflight, reqCount,
          msgs, metrics, unhandled, runState, serverIds, sockets,
          sioInstances, lastSent, emitted, lastCall, conf, timers, fetches,
          lastJoin, lastCommand, fmtCall, builder, builds>>

-----------------------------------------------------------------------------
(* Program constants *)

RATE_LIMIT_MS == 1000

CACHE_TTL_MS == 1800000

defaultPrefix == <<"!">>

\* defaultConfig.reconnectAttempts
DefaultReconnectAttempts == 5

(* Bounds of the model *)

MaxMsgs == 2

MaxCommands == 1

MaxRegistrations == 3

\* the most lines of one formatted message
MaxLines == 2

\* the most entries of EmbedBuilder.fieldsHtml
MaxFields == 2

\* the most build() calls between two setter calls
MaxBuilds == 2

MaxTicks == 2

MaxSends == 3

MaxRuns == 1

MaxJoins == 2

MaxFetches == 3

\* the largest reconnectAttempts option tried with socket events
MaxReconnectAttempts == 1

-----------------------------------------------------------------------------
(* JavaScript string primitives, on sequences of characters *)

\* String.prototype.startsWith
StartsWith(s, p) == Len(s) >= Len(p) /\ SubSeq(s, 1, Len(p)) = p

\* String.prototype.slice(n) for 0 <= n
Slice(s, n) == SubSeq(s, n + 1, Len(s))

\* whitespace removed by String.prototype.trim
IsSpace(c) == c \in {" ", "\n"}

RECURSIVE TrimStart(_)
TrimStart(s) ==
    IF s # <<>> /\ IsSpace(Head(s)) THEN TrimStart(Tail(s)) ELSE s

RECURSIVE TrimEnd(_)
TrimEnd(s) ==
    IF s # <<>> /\ IsSpace(s[Len(s)]) THEN TrimEnd(SubSeq(s, 1, Len(s) - 1)) ELSE s

\* String.prototype.trim
Trim(s) == TrimEnd(TrimStart(s))

\* String.prototype.split(" "): every single space separates, so two
\* adjacent spaces yield an empty part, and "" yields one empty part.
RECURSIVE SplitSpace(_)
SplitSpace(s) ==
    IF \E i \in 1..Len(s) : s[i] = " "
    THEN LET i == CHOOSE k \in 1..Len(s) :
                      s[k] = " " /\ \A j \in 1..(k - 1) : s[j] # " "
         IN  <<SubSeq(s, 1, i - 1)>> \o SplitSpace(SubSeq(s, i + 1, Len(s)))
    ELSE <<s>>

\* Array.prototype.join(" ")
RECURSIVE JoinSpace(_)
JoinSpace(parts) ==
    IF parts = <<>> THEN <<>>
    ELSE IF Len(parts) = 1 THEN parts[1]
    ELSE parts[1] \o <<" ">> \o JoinSpace(Tail(parts))

LowerChar(c) ==
    IF c = "A" THEN "a" ELSE IF c = "B" THEN "b"
    ELSE IF c = "E" THEN "e" ELSE IF c = "I" THEN "i"
    ELSE IF c = "S" THEN "s" ELSE c

\* String.prototype.toLowerCase
ToLowerCase(s) == [i \in 1..Len(s) |-> LowerChar(s[i])]

-----------------------------------------------------------------------------
(* The world outside the process *)

Servers == {"s1", "s2"}

BotId == "bot0"

\* message.owner?.id of an inbound message; "undefined" when owner or id is
\* missing, which the template literal of getUser turns into that word.
Senders == {"u1", "b1", "undefined"}

UserIds == Senders \cup {BotId}

UserUrl(id) == <<"user", id>>

ServerUrl(id) == <<"server", id>>

Urls == {UserUrl(id) : id \in UserIds} \cup {ServerUrl(id) : id \in Servers}

\* The accounts the platform flags as automated.
BotAccounts == {"b1", BotId}

\* The server lists the identity lookup of run() may return.
ServerLists == {<<>>, <<"s1">>, <<"s1", "s2">>}

\* The JSON body the REST API answers for url.
ApiData(url, servers) ==
    [url     |-> url,
     label   |-> IF url[1] = "user" /\ url[2] \in BotAccounts THEN "BOT" ELSE "NONE",
     servers |-> servers]

Null == [url |-> <<"null", "null">>, label |-> "null", servers |-> <<>>]

-----------------------------------------------------------------------------
(* validateConfig *)

\* options.prefix; <<>> stands for a prefix left out, empty or no string.
PrefixOptions == {<<>>, <<"!">>, <<"!", "!">>}

\* The options of `new Bot(options)` the model distinguishes: the prefix and,
\* for each hook, whether the function supplied throws when invoked.  The
\* default hooks (console.error, () => {}) do not throw.
\* options.reconnectAttempts
AttemptOptions == (0..MaxReconnectAttempts) \cup {DefaultReconnectAttempts}

Options == [prefix : PrefixOptions, onError : BOOLEAN, onStart : BOOLEAN,
            onMessage : BOOLEAN, autoReconnect : BOOLEAN,
            reconnectAttempts : AttemptOptions]

defaultOptions == [prefix |-> <<>>, onError |-> FALSE, onStart |-> FALSE,
                   onMessage |-> FALSE, autoReconnect |-> TRUE,
                   reconnectAttempts |-> DefaultReconnectAttempts]

validateConfig(opt) ==
    [opt EXCEPT !.prefix = IF opt.prefix = <<>> THEN defaultPrefix ELSE opt.prefix]

-----------------------------------------------------------------------------
(* class Cache *)

\* A key without an entry.  wiped (history): "no", or, when clear() removed
\* an entry of the key and the key has not been stored since, whether that
\* entry was still "valid" or had "expired".
NoEntry == [present |-> FALSE, value |-> Null, expiry |-> 0, wiped |-> "no"]

CacheGetStale(st, key, t) ==
    LET item == st[key] IN
    IF ~item.present THEN [value |-> Null, store |-> st]
    ELSE [value |-> item.value, store |-> st]

\* Cache.get: the value returned and the store it leaves (an expired entry
\* is deleted on read).
CacheGet(st, key, t) ==
    LET item == st[key] IN
    IF ~item.present THEN [value |-> Null, store |-> st]
    ELSE IF t > item.expiry
         THEN [value |-> Null, store |-> [st EXCEPT ![key] = NoEntry]]
         ELSE [value |-> item.value, store |-> st]

\* Cache.set
CacheSet(st, key, value, t) ==
    [st EXCEPT ![key] = [present |-> TRUE, value |-> value, expiry |-> t + CACHE_TTL_MS,
                         wiped |-> "no"]]

CacheClearNone(st) == st

\* Cache.clear
CacheClear(st) == [k \in DOMAIN st |-> NoEntry]

-----------------------------------------------------------------------------
(* command registry *)

CmdNames == {<<"a">>, <<"A">>}

Funcs == {"f1", "f2"}

\* Function.length of the registered handlers
Arity(f) == IF f = "f2" THEN 2 ELSE 1

DictHas(d, n) == \E e \in d : e.name = n

\* commandDict.get
DictGet(d, n) == IF DictHas(d, n) THEN (CHOOSE e \in d : e.name = n).func ELSE "undefined"

DictSetKeepFirst(d, n, f) ==
    IF DictHas(d, n) THEN d ELSE d \cup {[name |-> n, func |-> f]}

\* commandDict.set
DictSet(d, n, f) == {e \in d : e.name # n} \cup {[name |-> n, func |-> f]}

\* Before any command() call.  In command(name, func), name <<>> stands for
\* an empty or non-string name and func "notAFunction" for a value that is
\* not a function.
NoCommand == [name |-> <<>>, func |-> "", threw |-> FALSE, warned |-> FALSE]

InvalidCommandNameOnly(name, func) == name = <<>>

\* The test of line 78: name is empty or no string (<<>>), or func is no
\* function.
InvalidCommand(name, func) == name = <<>> \/ func \notin Funcs

\* command(name, func): throws on an invalid registration, warns when it
\* overwrites.
command(name, func) ==
    /\ cmdCount' = cmdCount + 1
    /\ IF InvalidCommand(name, func)
       THEN /\ lastCommand' = [name |-> name, func |-> func, threw |-> TRUE,
                               warned |-> FALSE]
            /\ UNCHANGED commandDict
       ELSE /\ lastCommand' = [name |-> name, func |-> func, threw |-> FALSE,
                               warned |-> DictHas(commandDict, name)]
            /\ commandDict' = DictSet(commandDict, name, func)
    /\ UNCHANGED <<now, ticks, prefix, hooks, store, inflight, reqCount, msgs, metrics,
                   unhandled, runState, serverIds, sockets, sioInstances,
                   lastSent, emitted, lastCall,
                   conf, timers, fetches, lastJoin, fmtCall, builder, builds>>

-----------------------------------------------------------------------------
(* Inbound messages *)

Texts ==
    { <<"h", "i">>,                         \* "hi", no prefix
      <<"!", "a">>,                         \* "!a"
      <<"!", "A", " ", "x", " ", "y">>,     \* "!A x y"
      <<"!", "!", "a", " ", "x">> }         \* "!!a x"

\* A payload of a socket "message" or "prompt" event.  nested: the message
\* is under the `message` field, with server_id beside it; otherwise text
\* and owner are at the top level.  hasText FALSE: the message has no text.
\* server_id "": the payload has none.  The owner object carries its id
\* (sender) and no name, username or nickname unless Named adds a name.
Payload(nested, sender, hasText, text, server_id) ==
    [nested |-> nested, sender |-> sender, hasText |-> hasText, text |-> text,
     server_id |-> server_id, name |-> "undefined"]

\* The payload p with owner.name set by the platform.
Named(p, name) == [p EXCEPT !.name = name]

Payloads ==
    {Payload(TRUE, "u1", TRUE, t, "s1") : t \in Texts}
    \cup {Payload(TRUE, s, TRUE, <<"!", "a">>, "s1") : s \in Senders}
    \cup {Payload(TRUE, "u1", FALSE, <<>>, "s1"),
          Payload(FALSE, "u1", TRUE, <<"!", "a">>, "s1"),
          Payload(TRUE, "u1", TRUE, <<"!", "a">>, ""),
          Named(Payload(TRUE, "u1", TRUE, <<"h", "i">>, "s1"), "n1")}

\* What the model remembers of one inbound event: its payload, where its
\* dispatch stands (pc), and what the dispatch has done so far.
NewMsg(p) ==
    [nested |-> p.nested, sender |-> p.sender, hasText |-> p.hasText,
     text |-> p.text, server_id |-> p.server_id,
     name |-> p.name,           \* owner.name as received
     ownerName |-> p.name,      \* owner.name of the message object now
     pc |-> "start",
     ctx |-> 0,                 \* Context objects constructed
     ctxServer |-> "none",      \* ctx.server: "none" (no ctx), "null", "data"
     serverCached |-> FALSE,    \* the Context found its server in the cache
     hookSaw |-> "none",        \* ctx.server when the onMessage hook was invoked
     onMessage |-> 0,           \* invocations of the onMessage hook
     hookSeq |-> 0,             \* n: the hook's n-th invocation was for this message
     cmd |-> <<>>,              \* <<cmdName>> once commandDict.get(cmdName) ran
     found |-> FALSE,           \* ... and returned a handler
     handlerCalls |-> <<>>,     \* invocations of command handlers
     onErrorCalls |-> <<>>,     \* invocations of the onError hook
     log |-> <<>>,              \* lines written by log / errorLog
     processed |-> 0,           \* commandsProcessed++ executed
     errs |-> 0,                \* errors++ executed
     escaped |-> FALSE]         \* checkNewCommand's promise was rejected

\* The catch block of checkNewCommand (lines 469-473); oeT: onError throws.
CatchBlock(r, oeT) ==
    LET r1 == [r EXCEPT !.errs = @ + 1,
                        !.onErrorCalls = Append(@, "exception")]
    IN  IF oeT THEN [r1 EXCEPT !.escaped = TRUE]
        ELSE [r1 EXCEPT !.log = Append(@, "error")]

\* a || b for strings, where "undefined" stands for a missing field.
Or(a, b) == IF a \notin {"undefined", ""} THEN a ELSE b

\* The name the Context constructor assigns to this.owner.name (line 678);
\* this.owner is the owner object of the message itself (line 677).
ownerName(name, username, id, nickname) ==
    Or(Or(Or(Or(name, username), id), nickname), "Unknown")

\* The number of characters checkNewCommand removes before it parses the
\* command (line 454).
StripLen(pfx) == 1

\* The key under which checkNewCommand looks the command up (line 455).
LookupKey(token) == ToLowerCase(token)

ContextServerEager(hit) == IF hit THEN "data" ELSE "null"

\* ctx.server when `new Context(..)` returns (lines 685-686); hit: the cache
\* holds the server's metadata.  The constructor sets it to null and calls
\* _fetchServer, which runs up to its `await` (line 694): the assignment of
\* line 695 is left to a later microtask even when getJsonCache answers
\* from the cache.
ContextServer(hit) == "null"

\* checkNewCommand from the point where `await this.isBot(..)` settles
\* (lines 446-474).  verdict: "rejected" (isBot's promise rejected), "bot",
\* "human".  hit: the cache holds the metadata of the message's server.
\* omT, hT, oeT: the onMessage hook, the command handler, the onError hook
\* throw when invoked.
checkNewCommand(m, verdict, hit, omT, hT, oeT) ==
    LET base == [m EXCEPT !.pc = "done"] IN
    IF verdict = "rejected" THEN CatchBlock(base, oeT)
    ELSE IF verdict = "bot" THEN base
    ELSE
      LET c1 == [base EXCEPT !.ctx = @ + 1, !.ctxServer = ContextServer(hit),
                             !.serverCached = hit,
                             !.hookSaw = ContextServer(hit),
                             !.onMessage = @ + 1,
                             !.ownerName = ownerName(m.ownerName, "undefined",
                                                     m.sender, "undefined")] IN
      IF omT THEN CatchBlock(c1, oeT)
      ELSE
        LET c2 == [c1 EXCEPT !.processed = @ + 1] IN
        IF ~(m.hasText /\ StartsWith(m.text, prefix)) THEN c2
        ELSE
          LET parts   == SplitSpace(Trim(Slice(m.text, StripLen(prefix))))
              cmdName == LookupKey(parts[1])
              arg     == JoinSpace(Tail(parts))
              cmdFunc == DictGet(commandDict, cmdName)
          IN
          IF cmdFunc = "undefined"
          THEN LET c3 == [c2 EXCEPT !.cmd = <<cmdName>>,
                                    !.onErrorCalls = Append(@, "unknown_command")] IN
               IF oeT THEN CatchBlock(c3, oeT)
               ELSE [c3 EXCEPT !.log = Append(@, "unknown_command")]
          ELSE LET c4 == [c2 EXCEPT !.cmd = <<cmdName>>, !.found = TRUE,
                                    !.handlerCalls =
                              Append(@, [name |-> cmdName, func |-> cmdFunc,
                                         args |-> IF Arity(cmdFunc) > 1 THEN <<arg>> ELSE <<>>,
                                         server |-> c1.ctxServer])]
               IN IF hT THEN CatchBlock(c4, oeT)
                  ELSE [c4 EXCEPT !.log = Append(@, "command")]

\* The rest of the macrotask in which isBot settles for message i: the
\* continuation of checkNewCommand and, when it constructs a Context, the
\* synchronous part of Context._fetchServer -> getJsonCache (cache read; on
\* a miss the request is issued, on a hit ctx.server is assigned in a
\* microtask after checkNewCommand has returned).
\* base: msgs with message i present; st: the store so far; pending: the
\* requests still in flight; e: errors++ already executed in this task.
FinishDispatch(base, i, verdict, st, pending, e, omT, hT, oeT) ==
    LET m       == base[i]
        surl    == ServerUrl(m.server_id)
        g       == CacheGet(st, surl, now)
        hit     == g.value # Null
        d       == checkNewCommand(m, verdict, hit, omT, hT, oeT)
        created == d.ctx > m.ctx
        d2      == IF created /\ hit THEN [d EXCEPT !.ctxServer = "data"] ELSE d
        hooked  == {j \in 1..Len(base) : base[j].onMessage > 0}
        d3      == IF d.onMessage > m.onMessage
                   THEN [d2 EXCEPT !.hookSeq = Cardinality(hooked) + 1] ELSE d2
    IN
    /\ msgs' = [base EXCEPT ![i] = d3]
    /\ store' = IF created THEN g.store ELSE st
    /\ inflight' = IF created /\ ~hit
                   THEN pending \cup {[url |-> surl, kind |-> "fetchServer", ref |-> i]}
                   ELSE pending
    /\ reqCount' = IF created /\ ~hit THEN [reqCount EXCEPT ![surl] = @ + 1] ELSE reqCount
    /\ metrics' = [metrics EXCEPT !.errors = @ + e + (d.errs - m.errs),
                                  !.commandsProcessed = @ + (d.processed - m.processed)]
    /\ unhandled' = unhandled + (IF d.escaped THEN 1 ELSE 0)

\* Bot.isBot on the value getUser resolved to (line 428)
isBot(user) == IF user # Null /\ user.label = "BOT" THEN "bot" ELSE "human"

\* Bot.onSocketMessage(prompt) (lines 434-438) with the synchronous start of
\* checkNewCommand -> isBot -> getUser -> getJsonCache (lines 312-317).
onSocketMessage(p) ==
    /\ Len(msgs) < MaxMsgs
    /\ LET i  == Len(msgs) + 1
           m0 == NewMsg(p)
       IN
       IF ~p.nested \/ p.server_id = ""
       THEN /\ msgs' = Append(msgs, [m0 EXCEPT !.pc = "dropped"])
            /\ UNCHANGED <<store, inflight, reqCount, metrics, unhandled>>
       ELSE
         LET url == UserUrl(p.sender)
             g   == CacheGet(store, url, now)
         IN
         IF g.value # Null
         THEN \E hT \in BOOLEAN :
                FinishDispatch(Append(msgs, m0), i, isBot(g.value), g.store,
                               inflight, 0, hooks.onMessage, hT, hooks.onError)
         ELSE /\ msgs' = Append(msgs, [m0 EXCEPT !.pc = "lookup"])
              /\ store' = g.store
              /\ inflight' = inflight \cup {[url |-> url, kind |-> "isBot", ref |-> i]}
              /\ reqCount' = [reqCount EXCEPT ![url] = @ + 1]
              /\ UNCHANGED <<metrics, unhandled>>
    /\ UNCHANGED <<now, ticks, prefix, hooks, commandDict, cmdCount, runState, serverIds,
                   sockets, sioInstances, lastSent, emitted, lastCall,
                   conf, timers, fetches, lastJoin,
                   lastCommand, fmtCall, builder, builds>>

-----------------------------------------------------------------------------
(* Network responses: the continuation of getJsonCache after `await
   axios.get` (lines 317-340) and of whoever awaited it *)

Outcomes == {"ok", "fail"}

\* getJsonCache after the response: "ok" is a 2xx answer with a JSON object,
\* "fail" any other answer (rejection, status >= 400, a body that is no
\* object), which ends in the catch block.  The result is the store it
\* leaves, the value it resolves to, the errors++ it executed and whether
\* its promise rejected because onError threw inside the catch block.
getJsonCacheSettle(r, outcome, srv, oeT) ==
    LET data == ApiData(r.url, IF r.url = UserUrl(BotId) THEN srv ELSE <<>>) IN
    IF outcome = "ok"
    THEN [store |-> CacheSet(store, r.url, data, now), value |-> data,
          errs |-> 0, rejected |-> FALSE]
    ELSE [store |-> store, value |-> Null, errs |-> 1, rejected |-> oeT]

\* The sender lookup of message r.ref is answered.
RespondIsBot(r, outcome) ==
    /\ r \in inflight
    /\ r.kind = "isBot"
    /\ \E hT \in BOOLEAN :
         LET s    == getJsonCacheSettle(r, outcome, <<>>, hooks.onError)
             base == IF outcome = "ok" THEN msgs
                     ELSE [msgs EXCEPT ![r.ref].onErrorCalls = Append(@, "getJsonCache"),
                                       ![r.ref].log = Append(@, "getJsonCache")]
         IN  FinishDispatch(base, r.ref,
                            IF s.rejected THEN "rejected" ELSE isBot(s.value),
                            s.store, inflight \ {r}, s.errs,
                            hooks.onMessage, hT, hooks.onError)
    /\ UNCHANGED <<now, ticks, prefix, hooks, commandDict, cmdCount, runState, serverIds,
                   sockets, sioInstances, lastSent, emitted, lastCall,
                   conf, timers, fetches, lastJoin,
                   lastCommand, fmtCall, builder, builds>>

\* The server lookup of the Context of message r.ref is answered
\* (Context._fetchServer, lines 692-701).
RespondFetchServer(r, outcome) ==
    /\ r \in inflight
    /\ r.kind = "fetchServer"
    /\ LET s == getJsonCacheSettle(r, outcome, <<>>, hooks.onError) IN
         /\ store' = s.store
         /\ inflight' = inflight \ {r}
         /\ metrics' = [metrics EXCEPT !.errors = @ + s.errs]
         /\ msgs' = [msgs EXCEPT
                       ![r.ref].ctxServer = IF s.value # Null THEN "data" ELSE "null",
                       ![r.ref].onErrorCalls =
                           IF outcome = "ok" THEN @
                           ELSE IF s.rejected
                                THEN @ \o <<"getJsonCache", "Context:_fetchServer">>
                                ELSE Append(@, "getJsonCache"),
                       ![r.ref].log =
                           IF outcome = "ok" THEN @
                           ELSE IF s.rejected
                                THEN @ \o <<"getJsonCache", "Context:_fetchServer">>
                                ELSE Append(@, "getJsonCache")]
         \* the catch block of _fetchServer calls onError again; when that
         \* throws too, the promise nobody holds is rejected
         /\ unhandled' = unhandled + (IF s.rejected THEN 1 ELSE 0)
    /\ UNCHANGED <<now, ticks, prefix, hooks, commandDict, cmdCount, reqCount, runState,
                   serverIds, sockets, sioInstances, lastSent, emitted, lastCall,
                   conf, timers, fetches, lastJoin,
                   lastCommand, fmtCall, builder, builds>>

-----------------------------------------------------------------------------
(* Bot.run and Bot._connectSocket *)

\* Array.prototype.includes
InList(x, list) == \E k \in 1..Len(list) : list[k] = x

\* The socket io(...) returns (lines 380-387), its handlers registered.
\* connected: socket.connected; opened (history): it has been connected;
\* errors: connect_error events it has delivered.
NewSocket(serverId, attempt) ==
    [server |-> serverId, attempt |-> attempt, connected |-> FALSE,
     opened |-> FALSE, errors |-> 0]

\* _connectSocket(serverId, attempt) (lines 379-410): a new socket is
\* created and replaces the entry of serverId in sioInstances.
connectSocket(socks, sio, serverId, attempt) ==
    LET socks2 == Append(socks, NewSocket(serverId, attempt)) IN
    [sockets |-> socks2, sio |-> [sio EXCEPT ![serverId] = Len(socks2)]]

connectFirst(list, socks, sio) ==
    IF list = <<>> THEN [sockets |-> socks, sio |-> sio]
    ELSE connectSocket(socks, sio, Head(list), 0)

\* for (const serverId of this.serverIds) this._connectSocket(serverId)
RECURSIVE connectAll(_, _, _)
connectAll(list, socks, sio) ==
    IF list = <<>> THEN [sockets |-> socks, sio |-> sio]
    ELSE LET c == connectSocket(socks, sio, Head(list), 0)
         IN  connectAll(Tail(list), c.sockets, c.sio)

\* What the model remembers of one run() call.  listed: the server ids the
\* identity lookup returned; hookSaw, eventSaw: the servers this call had
\* created a socket for when it invoked onStart / emitted "start".
NewRun ==
    [status |-> "pending",      \* "pending", "aborted", "failed", "done"
     onStart |-> 0,             \* invocations of the onStart hook
     start |-> 0,               \* "start" events emitted
     onError |-> 0,             \* onError(err, "run:fetchUser") calls
     opened |-> 0,              \* sockets created
     listed |-> <<>>,
     hookSaw |-> {},
     eventSaw |-> {}]

\* run() from the point where the identity lookup settles (lines 354-372).
\* rs: the run bookkeeping so far; n: which call; res: the value
\* getJsonCache resolved to; rejected: its promise rejected; e: errors++
\* already executed in this task; osT, oeT: onStart, onError throw.
runContinue(rs, n, res, rejected, e, osT, oeT) ==
    IF rejected \/ res = Null
    THEN /\ metrics' = [metrics EXCEPT !.errors = @ + e + 1]
         /\ runState' = [rs EXCEPT !.aborted = @ + 1,
                                   !.onError = @ + 1,
                                   !.pending = @ - 1,
                                   !.runs[n].status = "aborted",
                                   !.runs[n].onError = @ + 1]
         /\ unhandled' = unhandled + (IF oeT THEN 1 ELSE 0)
         /\ UNCHANGED <<serverIds, sockets, sioInstances>>
    ELSE LET c == connectAll(res.servers, sockets, sioInstances)
             initiated == {c.sockets[k].server : k \in (Len(sockets) + 1)..Len(c.sockets)}
         IN
         /\ serverIds' = res.servers
         /\ sockets' = c.sockets
         /\ sioInstances' = c.sio
         /\ metrics' = [metrics EXCEPT !.errors = @ + e]
         /\ runState' = [rs EXCEPT
                            !.onStart = @ + 1,
                            !.wipers = IF osT THEN @ ELSE Append(@, now + CACHE_TTL_MS),
                            !.startEvents = IF osT THEN @ ELSE @ + 1,
                            !.pending = @ - 1,
                            !.runs[n].status = IF osT THEN "failed" ELSE "done",
                            !.runs[n].listed = res.servers,
                            !.runs[n].opened = Len(c.sockets) - Len(sockets),
                            !.runs[n].onStart = @ + 1,
                            !.runs[n].hookSaw = initiated,
                            !.runs[n].start = IF osT THEN @ ELSE @ + 1,
                            !.runs[n].eventSaw = IF osT THEN @ ELSE initiated]
         /\ unhandled' = unhandled + (IF osT THEN 1 ELSE 0)

\* run(token, botId) with both arguments given (lines 347-353), and the
\* rest of run() in the same task when the identity is already cached.
run ==
    /\ runState.calls < MaxRuns
    /\ LET url == UserUrl(BotId)
           g   == CacheGet(store, url, now)
           rs  == [runState EXCEPT !.calls = @ + 1, !.pending = @ + 1,
                                   !.runs = Append(@, NewRun)]
       IN
       /\ store' = g.store
       /\ IF g.value # Null
          THEN /\ UNCHANGED <<inflight, reqCount>>
               /\ runContinue(rs, rs.calls, g.value, FALSE, 0, hooks.onStart, hooks.onError)
          ELSE /\ inflight' = inflight \cup {[url |-> url, kind |-> "run", ref |-> rs.calls]}
               /\ reqCount' = [reqCount EXCEPT ![url] = @ + 1]
               /\ runState' = rs
               /\ UNCHANGED <<serverIds, sockets, sioInstances, unhandled, metrics>>
    /\ UNCHANGED <<now, ticks, prefix, hooks, commandDict, cmdCount, msgs,
                   lastSent, emitted, lastCall, conf, timers, fetches, lastJoin,
                   lastCommand, fmtCall, builder, builds>>

\* The identity lookup of run() is answered.
\* srv: the server list of the answer.
RespondRun(r, outcome, srv) ==
    /\ r \in inflight
    /\ r.kind = "run"
    /\   LET s == getJsonCacheSettle(r, outcome, srv, hooks.onError) IN
         /\ store' = s.store
         /\ inflight' = inflight \ {r}
         /\ runContinue(runState, r.ref, s.value, s.rejected, s.errs,
                        hooks.onStart, hooks.onError)
    /\ UNCHANGED <<now, ticks, prefix, hooks, commandDict, cmdCount, reqCount, msgs,
                   lastSent, emitted, lastCall,
                   conf, timers, fetches, lastJoin,
                   lastCommand, fmtCall, builder, builds>>

-----------------------------------------------------------------------------
(* getUser / getServer called by user code, and the cache wiper *)

\* The URLs user code looks up: getUser(botId) and getServer("s1").
FetchUrls == {UserUrl(BotId), ServerUrl("s1")}

\* What the model remembers of the latest lookup of one URL by user code:
\* which call it was (n, 0 for none), when, the entry it found, whether it
\* issued a request, how it resolved (result) and to what (value).
NoFetch == [n |-> 0, at |-> 0, entry |-> NoEntry, requested |-> FALSE, result |-> "none",
            value |-> Null]

\* getUser(id) / getServer(id) (lines 416-421) up to the `await axios.get`
\* of getJsonCache (lines 313-317).
getJsonCacheCall(url) ==
    /\ fetches.n < MaxFetches
    /\ LET g   == CacheGet(store, url, now)
           hit == g.value # Null
           f   == [n |-> fetches.n + 1, at |-> now, entry |-> store[url],
                   requested |-> ~hit,
                   result |-> IF hit THEN "data" ELSE "pending",
                   value |-> g.value]
       IN
       /\ fetches' = [n |-> fetches.n + 1, last |-> [fetches.last EXCEPT ![url] = f]]
       /\ store' = g.store
       /\ inflight' = IF hit THEN inflight
                      ELSE inflight \cup {[url |-> url, kind |-> "fetch", ref |-> f.n]}
       /\ reqCount' = IF hit THEN reqCount ELSE [reqCount EXCEPT ![url] = @ + 1]
    /\ UNCHANGED <<now, ticks, prefix, hooks, commandDict, cmdCount, msgs, metrics,
                   unhandled, runState, serverIds, sockets, sioInstances, lastSent,
                   emitted, lastCall, conf, timers, lastJoin,
                   lastCommand, fmtCall, builder, builds>>

\* The request of call r.ref is answered.  When onError throws inside the
\* catch block the promise handed to user code is rejected.
RespondFetch(r, outcome) ==
    /\ r \in inflight
    /\ r.kind = "fetch"
    /\ LET s == getJsonCacheSettle(r, outcome, <<>>, hooks.onError) IN
         /\ store' = s.store
         /\ inflight' = inflight \ {r}
         /\ metrics' = [metrics EXCEPT !.errors = @ + s.errs]
         /\ fetches' = IF fetches.last[r.url].n # r.ref THEN fetches
                       ELSE [fetches EXCEPT
                               !.last[r.url].result =
                                   IF s.rejected THEN "rejected"
                                   ELSE IF s.value # Null THEN "data"
                                   ELSE "null",
                               !.last[r.url].value =
                                   IF s.rejected THEN Null ELSE s.value]
    /\ UNCHANGED <<now, ticks, prefix, hooks, commandDict, cmdCount, reqCount, msgs,
                   unhandled, runState, serverIds, sockets, sioInstances, lastSent,
                   emitted, lastCall, conf, timers, lastJoin,
                   lastCommand, fmtCall, builder, builds>>

\* What clear() did to the entry e of a key, for the history field wiped.
WipedAs(e, t) ==
    IF ~e.present THEN e.wiped
    ELSE IF t > e.expiry THEN "expired" ELSE "valid"

\* The setInterval callback of startCacheWiper (lines 301-305) fires for
\* the k-th wiper, not before it is due.
Wipe(k) ==
    /\ now >= runState.wipers[k]
    /\ store' = [u \in Urls |-> [CacheClear(store)[u] EXCEPT !.wiped = WipedAs(store[u], now)]]
    /\ runState' = [runState EXCEPT !.wipers[k] = @ + CACHE_TTL_MS, !.wipes = @ + 1]
    /\ UNCHANGED <<now, ticks, prefix, hooks, commandDict, cmdCount, inflight, reqCount,
                   msgs, metrics, unhandled, serverIds, sockets, sioInstances,
                   lastSent, emitted, lastCall, conf, timers, fetches, lastJoin,
                   lastCommand, fmtCall, builder, builds>>

-----------------------------------------------------------------------------
(* join.  src/index.js defines no join method; README.md documents
   join(serverId), and the operation below follows the specification's
   description of it: a server already joined is rejected, otherwise
   membership is registered by a network call and then a connection is
   opened for the server. *)

JoinUrl(serverId) == <<"join", serverId>>

joinUnchecked(serverId) ==
    /\ lastJoin.n < MaxJoins
    /\ lastJoin' = [n |-> lastJoin.n + 1, server |-> serverId,
                    joined |-> InList(serverId, serverIds), outcome |-> "requested"]
    /\ inflight' = inflight \cup {[url |-> JoinUrl(serverId), kind |-> "join",
                                   ref |-> lastJoin.n + 1]}
    /\ UNCHANGED <<now, ticks, prefix, hooks, commandDict, cmdCount, store, reqCount,
                   msgs, metrics, unhandled, runState, serverIds, sockets,
                   sioInstances, lastSent, emitted, lastCall, conf, timers, fetches,
                   lastCommand, fmtCall, builder, builds>>

\* join(serverId) up to its network call.
join(serverId) ==
    /\ lastJoin.n < MaxJoins
    /\ LET call == [n |-> lastJoin.n + 1, server |-> serverId,
                    joined |-> InList(serverId, serverIds), outcome |-> "none"]
       IN
       IF InList(serverId, serverIds)
       THEN /\ lastJoin' = [call EXCEPT !.outcome = "rejected"]
            /\ UNCHANGED inflight
       ELSE /\ lastJoin' = [call EXCEPT !.outcome = "requested"]
            /\ inflight' = inflight \cup {[url |-> JoinUrl(serverId), kind |-> "join",
                                           ref |-> call.n]}
    /\ UNCHANGED <<now, ticks, prefix, hooks, commandDict, cmdCount, store, reqCount,
                   msgs, metrics, unhandled, runState, serverIds, sockets,
                   sioInstances, lastSent, emitted, lastCall, conf, timers, fetches,
                   lastCommand, fmtCall, builder, builds>>

\* The network call of join is answered: on success the server is
\* registered as joined and a connection is opened for it.
RespondJoin(r, outcome) ==
    /\ r \in inflight
    /\ r.kind = "join"
    /\ inflight' = inflight \ {r}
    /\ IF outcome = "ok"
       THEN LET c == connectSocket(sockets, sioInstances, r.url[2], 0) IN
            /\ serverIds' = Append(serverIds, r.url[2])
            /\ sockets' = c.sockets
            /\ sioInstances' = c.sio
            /\ UNCHANGED <<metrics, unhandled>>
       ELSE /\ metrics' = [metrics EXCEPT !.errors = @ + 1]
            /\ unhandled' = unhandled + (IF hooks.onError THEN 1 ELSE 0)
            /\ UNCHANGED <<serverIds, sockets, sioInstances>>
    /\ UNCHANGED <<now, ticks, prefix, hooks, commandDict, cmdCount, store, reqCount,
                   msgs, runState, lastSent, emitted, lastCall, conf, timers, fetches,
                   lastJoin,
                   lastCommand, fmtCall, builder, builds>>

-----------------------------------------------------------------------------
(* Socket events.  socket.io-client is outside src/; what it does with the
   options of lines 384-386 is taken from its documented behaviour: a socket
   that fails to connect delivers connect_error, and with `reconnection`
   set its manager tries again, up to `reconnectionAttempts` more times,
   delivering connect_error for every failed try; a socket that lost its
   connection reconnects only with `reconnection` set.  _connectSocket never
   closes a socket, so every socket keeps its handlers. *)

\* The number of tries the transport makes for one socket.
TransportTries(c) == IF c.autoReconnect THEN c.reconnectAttempts + 1 ELSE 1

\* The transport of socket k is still trying to connect.
Trying(k) ==
    /\ ~sockets[k].connected
    /\ sockets[k].errors < TransportTries(conf)
    /\ (sockets[k].opened => conf.autoReconnect)

\* socket.on("connect") (lines 389-392)
SocketConnect(k) ==
    /\ Trying(k)
    /\ sockets' = [sockets EXCEPT ![k].connected = TRUE, ![k].opened = TRUE]
    /\ UNCHANGED <<now, ticks, prefix, hooks, commandDict, cmdCount, store, inflight,
                   reqCount, msgs, metrics, unhandled, runState, serverIds,
                   sioInstances, lastSent, emitted, lastCall, conf, timers, fetches,
                   lastJoin,
                   lastCommand, fmtCall, builder, builds>>

\* socket.on("disconnect") (lines 394-397)
SocketDisconnect(k) ==
    /\ sockets[k].connected
    /\ sockets' = [sockets EXCEPT ![k].connected = FALSE]
    /\ UNCHANGED <<now, ticks, prefix, hooks, commandDict, cmdCount, store, inflight,
                   reqCount, msgs, metrics, unhandled, runState, serverIds,
                   sioInstances, lastSent, emitted, lastCall, conf, timers, fetches,
                   lastJoin,
                   lastCommand, fmtCall, builder, builds>>

\* defaultConfig.reconnectBaseDelay (line 28), which validateConfig leaves
\* as it is; the options of the model do not set it.
reconnectBaseDelay == 1000

\* Math.pow(2, n) for n = 0, 1, ...
RECURSIVE Pow2(_)
Pow2(n) == IF n = 0 THEN 1 ELSE 2 * Pow2(n - 1)

\* The body of the connect_error handler (lines 401-403): the timers after
\* it.  A timer keeps what setTimeout was given: the arguments of the
\* _connectSocket call and the delay; fired: its callback has run.
ScheduleRetry(k) ==
    IF sockets[k].attempt < conf.reconnectAttempts
    THEN Append(timers, [server |-> sockets[k].server, attempt |-> sockets[k].attempt + 1,
                         delay |-> reconnectBaseDelay * Pow2(sockets[k].attempt),
                         fired |-> FALSE])
    ELSE timers

\* socket.on("connect_error") (lines 399-404)
SocketConnectError(k) ==
    /\ Trying(k)
    /\ sockets' = [sockets EXCEPT ![k].errors = @ + 1]
    /\ timers' = ScheduleRetry(k)
    /\ UNCHANGED <<now, ticks, prefix, hooks, commandDict, cmdCount, store, inflight,
                   reqCount, msgs, metrics, unhandled, runState, serverIds,
                   sioInstances, lastSent, emitted, lastCall, conf, fetches, lastJoin,
                   lastCommand, fmtCall, builder, builds>>

\* The setTimeout callback of line 402 fires:
\* this._connectSocket(serverId, attempt + 1).
RetryTimer(i) ==
    /\ ~timers[i].fired
    /\ LET c == connectSocket(sockets, sioInstances, timers[i].server, timers[i].attempt) IN
         /\ sockets' = c.sockets
         /\ sioInstances' = c.sio
    /\ timers' = [timers EXCEPT ![i].fired = TRUE]
    /\ UNCHANGED <<now, ticks, prefix, hooks, commandDict, cmdCount, store, inflight,
                   reqCount, msgs, metrics, unhandled, runState, serverIds,
                   lastSent, emitted, lastCall, conf, fetches, lastJoin,
                   lastCommand, fmtCall, builder, builds>>

-----------------------------------------------------------------------------
(* Bot.send *)

\* "text": a non-empty string; "empty": "", or a value that is no string.
MsgKinds == {"text", "empty"}

RateLimitedInclusive(last, t) == t - last <= RATE_LIMIT_MS

\* The rate-limit test of send (line 495) for a send at time t.
RateLimited(last, t) == t - last < RATE_LIMIT_MS

\* The bot holds a socket for serverId and that socket is connected.
IsConnected(serverId) ==
    /\ sioInstances[serverId] # 0
    /\ sockets[sioInstances[serverId]].connected

SetLastSentGlobal(ls, serverId, t) == [s \in DOMAIN ls |-> t]

\* this.lastSent.set(serverId, Date.now()) (line 508)
SetLastSent(ls, serverId, t) == [ls EXCEPT ![serverId] = t]

\* send(message, serverId) (lines 480-521).
send(message, serverId) ==
    /\ lastCall.n < MaxSends
    /\   LET call == [n |-> lastCall.n + 1, server |-> serverId, msg |-> message,
                      at |-> now, prev |-> lastSent[serverId],
                      joined |-> InList(serverId, serverIds),
                      connected |-> IsConnected(serverId),
                      outcome |-> "none", onError |-> 0, threw |-> FALSE]
             Reject(why) == [call EXCEPT !.outcome = why, !.onError = 1, !.threw = hooks.onError]
         IN
         IF ~InList(serverId, serverIds)
         THEN /\ lastCall' = Reject("not_in_server")
              /\ UNCHANGED <<lastSent, emitted, metrics>>
         ELSE IF message # "text"
         THEN /\ lastCall' = Reject("invalid_message")
              /\ UNCHANGED <<lastSent, emitted, metrics>>
         ELSE IF RateLimited(lastSent[serverId], now)
         THEN /\ lastCall' = Reject("rate_limit")
              /\ UNCHANGED <<lastSent, emitted, metrics>>
         ELSE IF sioInstances[serverId] = 0
         THEN /\ lastCall' = Reject("no_socket")
              /\ metrics' = [metrics EXCEPT !.errors = @ + 1]
              /\ UNCHANGED <<lastSent, emitted>>
         ELSE /\ emitted' = Append(emitted, [server |-> serverId,
                                             socket |-> sioInstances[serverId],
                                             at |-> now])
              /\ lastSent' = SetLastSent(lastSent, serverId, now)
              /\ metrics' = [metrics EXCEPT !.messagesSent = @ + 1]
              /\ lastCall' = [call EXCEPT !.outcome = "sent"]
    /\ UNCHANGED <<now, ticks, prefix, hooks, commandDict, cmdCount, store, inflight,
                   reqCount, msgs, unhandled, runState, serverIds, sockets,
                   sioInstances,
                   conf, timers, fetches, lastJoin,
                   lastCommand, fmtCall, builder, builds>>

-----------------------------------------------------------------------------
(* The clock *)

\* one millisecond short of the rate-limit window, and exactly the window
SendSteps == {RATE_LIMIT_MS - 1, RATE_LIMIT_MS}

\* the last instant an entry is served, and the first at which it is expired
CacheSteps == {CACHE_TTL_MS, CACHE_TTL_MS + 1}

\* Date.now() advances by d between two tasks.
Tick(d) ==
    /\ ticks < MaxTicks
    /\ ticks' = ticks + 1
    /\ now' = now + d
    /\ UNCHANGED <<prefix, hooks, commandDict, cmdCount, store, inflight, reqCount, msgs,
                   metrics, unhandled, runState, serverIds, sockets, sioInstances,
                   lastSent, emitted, lastCall,
                   conf, timers, fetches, lastJoin,
                   lastCommand, fmtCall, builder, builds>>

-----------------------------------------------------------------------------
(* formatMessage.  A string is a sequence whose elements are single
   characters or whole markup tags: "<br>" is the line break formatMessage
   inserts, "<x>" a tag outside the allow-list.  Interpolated template
   fragments of the output are single elements as well. *)

\* EMBED_TYPES, in the order of the object's keys
EMBED_TYPES ==
    <<[key |-> <<"e", "m", "b", "e", "d">>,
       className |-> "embed", icon |-> ""],
      [key |-> <<"e", "m", "b", "e", "d", ":", "n", "o", "t", "e">>,
       className |-> "embed note", icon |-> "bx bx-note"],
      [key |-> <<"e", "m", "b", "e", "d", ":", "s", "u", "c", "c", "e", "s", "s">>,
       className |-> "embed success", icon |-> "bx bx-check-circle"],
      [key |-> <<"e", "m", "b", "e", "d", ":", "i", "n", "f", "o">>,
       className |-> "embed info", icon |-> "bx bx-info-circle"],
      [key |-> <<"e", "m", "b", "e", "d", ":", "w", "a", "r", "n">>,
       className |-> "embed warn", icon |-> "bx bx-error"],
      [key |-> <<"e", "m", "b", "e", "d", ":", "e", "r", "r", "o", "r">>,
       className |-> "embed error", icon |-> "bx bx-x-circle"],
      [key |-> <<"e", "m", "b", "e", "d", ":", "c", "l", "e", "a", "n">>,
       className |-> "embed clean", icon |-> ""]>>

\* FORMAT_SHORTCUTS; wrap is `open${val}close`
FORMAT_SHORTCUTS ==
    <<[key |-> <<"s", "t", "r", "o", "n", "g">>, open |-> "<strong>", close |-> "</strong>"],
      [key |-> <<"i", "t", "a", "l", "i", "c">>, open |-> "<em>", close |-> "</em>"],
      [key |-> <<"s", "t", "r", "i", "k", "e">>, open |-> "<del>", close |-> "</del>"],
      [key |-> <<"u", "n", "d", "e", "r", "l", "i", "n", "e">>, open |-> "<u>", close |-> "</u>"],
      [key |-> <<"c", "o", "d", "e">>, open |-> "<code>", close |-> "</code>"],
      [key |-> <<"c", "o", "d", "e", "b", "l", "o", "c", "k">>, open |-> "<code class=\"multiline\">", close |-> "</code>"],
      [key |-> <<"s", "p", "o", "i", "l", "e", "r">>, open |-> "<p class=\"spoiler\">", close |-> "</p>"],
      [key |-> <<"q", "u", "o", "t", "e">>, open |-> "<blockquote>", close |-> "</blockquote>"],
      [key |-> <<"h", "1">>, open |-> "<h1>", close |-> "</h1>"],
      [key |-> <<"h", "2">>, open |-> "<h2>", close |-> "</h2>"],
      [key |-> <<"h", "3">>, open |-> "<h3>", close |-> "</h3>"],
      [key |-> <<"u", "l">>, open |-> "<ul><li>", close |-> "</li></ul>"]>>

\* The attachment prefixes in the order they are tested, with the pieces of
\* the media tag around the URL.
ATTACHMENTS ==
    <<[key |-> <<"i", "m", "g", "s", "p", "o", "i", "l", "e", "r">>,
       open |-> "<img class=\"attachment spoiler\" src=\"",
       close |-> "\"></img>"],
      [key |-> <<"i", "m", "g">>,
       open |-> "<img class=\"attachment\" src=\"",
       close |-> "\"></img>"],
      [key |-> <<"a", "u", "d", "i", "o">>,
       open |-> "<audio controls src=\"",
       close |-> "\"></audio>"],
      [key |-> <<"v", "i", "d", "e", "o">>,
       open |-> "<video class=\"attachment\" controls width=\"320\" height=\"240\"><source src=\"",
       close |-> "\" type=\"video/\"></video>"]>>

\* How the sanitizer writes an allowed line break.  sanitize-html is not part
\* of the sources: it leaves the element as written or renders it in its
\* self-closing form.
BreakForms == {"<br>", "<br />"}

\* input.replace(/\n/g, "<br>")
withBreaks(s) == [i \in 1..Len(s) |-> IF s[i] = "\n" THEN "<br>" ELSE s[i]]

\* sanitizeHtml(withBreaks, {...}): tags outside the allow-list are removed,
\* "&" is escaped, an allowed line break is written as br.
RECURSIVE sanitizeHtml(_, _)
sanitizeHtml(s, br) ==
    IF s = <<>> THEN <<>>
    ELSE LET c == Head(s)
             r == IF c = "<x>" THEN <<>>
                  ELSE IF c = "&" THEN <<"&amp;">>
                  ELSE IF c = "<br>" THEN <<br>>
                  ELSE <<c>>
         IN r \o sanitizeHtml(Tail(s), br)

\* String.prototype.split("<br>")
RECURSIVE SplitBr(_)
SplitBr(s) ==
    IF \E i \in 1..Len(s) : s[i] = "<br>"
    THEN LET i == CHOOSE k \in 1..Len(s) :
                      s[k] = "<br>" /\ \A j \in 1..(k - 1) : s[j] # "<br>"
         IN  <<SubSeq(s, 1, i - 1)>> \o SplitBr(SubSeq(s, i + 1, Len(s)))
    ELSE <<s>>

\* Array.prototype.join("<br>")
RECURSIVE JoinBr(_)
JoinBr(parts) ==
    IF parts = <<>> THEN <<>>
    ELSE IF Len(parts) = 1 THEN parts[1]
    ELSE parts[1] \o <<"<br>">> \o JoinBr(Tail(parts))

trimmedOnly(input, maxLength) == Trim(input)

\* input.trim().slice(0, maxLength); a negative maxLength counts from the
\* end of the string.
trimmed(input, maxLength) ==
    LET t   == Trim(input)
        end == IF maxLength < 0
               THEN (IF Len(t) + maxLength < 0 THEN 0 ELSE Len(t) + maxLength)
               ELSE (IF Len(t) < maxLength THEN Len(t) ELSE maxLength)
    IN  SubSeq(t, 1, end)

\* keys.sort((a, b) => b.length - a.length) is stable: k goes behind every
\* key that is at least as long.
RECURSIVE InsertByLength(_, _)
InsertByLength(sorted, k) ==
    IF sorted = <<>> THEN <<k>>
    ELSE IF Len(EMBED_TYPES[Head(sorted)].key) >= Len(EMBED_TYPES[k].key)
         THEN <<Head(sorted)>> \o InsertByLength(Tail(sorted), k)
         ELSE <<k>> \o sorted

RECURSIVE SortByLength(_)
SortByLength(keys) ==
    IF keys = <<>> THEN <<>>
    ELSE InsertByLength(SortByLength(SubSeq(keys, 1, Len(keys) - 1)), keys[Len(keys)])

insertionOrderKeys == [i \in 1..Len(EMBED_TYPES) |-> i]

\* sortedKeys, as indices into EMBED_TYPES
sortedKeys == SortByLength([i \in 1..Len(EMBED_TYPES) |-> i])

\* The loop over sortedKeys: the index of the first key with
\* sanitized.toLowerCase().startsWith(`${key}:`), 0 when there is none.
RECURSIVE firstEmbed(_, _)
firstEmbed(keys, sanitized) ==
    IF keys = <<>> THEN 0
    ELSE IF StartsWith(ToLowerCase(sanitized), EMBED_TYPES[Head(keys)].key \o <<":">>)
         THEN Head(keys)
         ELSE firstEmbed(Tail(keys), sanitized)

RECURSIVE firstShortcutAnyCase(_, _)
firstShortcutAnyCase(k, line) ==
    IF k > Len(FORMAT_SHORTCUTS) THEN 0
    ELSE IF StartsWith(ToLowerCase(line), FORMAT_SHORTCUTS[k].key \o <<":">>) THEN k
    ELSE firstShortcutAnyCase(k + 1, line)

\* The loop over FORMAT_SHORTCUTS from entry k on: the index of the first
\* entry with line.startsWith(`${fmt.key}:`), 0 when there is none.
RECURSIVE firstShortcut(_, _)
firstShortcut(k, line) ==
    IF k > Len(FORMAT_SHORTCUTS) THEN 0
    ELSE IF StartsWith(line, FORMAT_SHORTCUTS[k].key \o <<":">>) THEN k
    ELSE firstShortcut(k + 1, line)

wrapNone(fmt, val) == val

\* fmt.wrap(val)
wrap(fmt, val) == <<fmt.open>> \o val \o <<fmt.close>>

\* The callback of lines.map
formatLine(l) ==
    LET line == Trim(l)
        k    == firstShortcut(1, line)
    IN  IF k = 0 THEN line
        ELSE wrap(FORMAT_SHORTCUTS[k], Trim(Slice(line, Len(FORMAT_SHORTCUTS[k].key) + 1)))

NonEmpty(line) == line # <<>>

\* lines.map(...).filter(line => line).join("<br>")
formatLines(text) ==
    LET lines == SplitBr(text) IN
    JoinBr(SelectSeq([i \in 1..Len(lines) |-> formatLine(lines[i])], NonEmpty))

\* The four startsWith tests on formattedLines: the index of the first
\* attachment prefix it starts with, 0 when there is none.
RECURSIVE firstAttachment(_, _)
firstAttachment(k, text) ==
    IF k > Len(ATTACHMENTS) THEN 0
    ELSE IF StartsWith(text, ATTACHMENTS[k].key \o <<":">>) THEN k
    ELSE firstAttachment(k + 1, text)

DefaultMaxLength == 2000

\* What a call returned together with what it went through: the sanitized
\* text, the embed key that matched (index into EMBED_TYPES, 0 for none), the
\* trimmed lines that were scanned with the shortcut that wrapped each
\* (index into FORMAT_SHORTCUTS, 0 for none), and the attachment prefix that
\* matched (index into ATTACHMENTS, 0 for none).
Formatted(output, sanitized, embed, text, attachment) ==
    LET lines == SplitBr(text) IN
    [output |-> output, sanitized |-> sanitized, embed |-> embed,
     lines |-> [i \in 1..Len(lines) |-> Trim(lines[i])],
     wraps |-> [i \in 1..Len(lines) |-> firstShortcut(1, Trim(lines[i]))],
     attachment |-> attachment]

\* formatMessage(input, maxLength) for a string input, with the sanitizer
\* writing line breaks as br
formatMessage(input, maxLength, br) ==
    IF input = <<>> THEN Formatted(<<>>, <<>>, 0, <<>>, 0)
    ELSE
    LET t == trimmed(input, maxLength) IN
    IF t = <<>> THEN Formatted(<<>>, <<>>, 0, <<>>, 0)
    ELSE
    LET sanitized == sanitizeHtml(withBreaks(t), br)
        e         == firstEmbed(sortedKeys, sanitized)
    IN
    IF e # 0
    THEN LET content  == Trim(Slice(sanitized, Len(EMBED_TYPES[e].key) + 1))
             iconHTML == IF EMBED_TYPES[e].icon # ""
                         THEN <<"<i class=\"", EMBED_TYPES[e].icon, "\"></i> ">>
                         ELSE <<>>
         IN  Formatted(<<"<div class=\"", EMBED_TYPES[e].className, "\">">>
                           \o iconHTML \o formatLines(content) \o <<"</div>">>,
                       sanitized, e, content, 0)
    ELSE LET formattedLines == formatLines(sanitized)
             a == firstAttachment(1, formattedLines)
         IN  IF a # 0
             THEN LET url == Trim(Slice(formattedLines, Len(ATTACHMENTS[a].key) + 1)) IN
                  Formatted(<<ATTACHMENTS[a].open>> \o url \o <<ATTACHMENTS[a].close>>,
                            sanitized, 0, sanitized, a)
             ELSE Formatted(formattedLines, sanitized, 0, sanitized, 0)

\* The lines of a message typed by a user
Lines ==
    {<<"x">>,
     <<" ", "x">>,
     <<"s", "t", "r", "o", "n", "g", ":", "x">>,
     <<"s", "t", "r", "o", "n", "g", ":", "i", "m", "g", ":", "u">>,
     <<"S", "t", "r", "o", "n", "g", ":", "x">>,
     <<"c", "o", "d", "e", ":", "x">>,
     <<"c", "o", "d", "e", "b", "l", "o", "c", "k", ":", " ", "x">>,
     <<"i", "m", "g", ":", "u">>,
     <<"i", "m", "g", "s", "p", "o", "i", "l", "e", "r", ":", "u">>,
     <<"e", "m", "b", "e", "d", ":", "i", "n", "f", "o", ":", "x">>,
     <<"e", "m", "b", "e", "d", ":", "i", "n", "f", "o">>,
     <<"e", "m", "b", "e", "d", "i", "n", "f", "o", ":", "x">>,
     <<"E", "m", "b", "e", "d", ":", "I", "n", "f", "o", ":", "x">>,
     <<"e", "m", "b", "e", "d", ":", "s", "t", "r", "o", "n", "g", ":", "x">>,
     <<"<x>", "e", "m", "b", "e", "d", ":", "x">>,
     <<"a", "&", "b">>,
     <<>>}

RECURSIVE JoinNewline(_)
JoinNewline(parts) ==
    IF parts = <<>> THEN <<>>
    ELSE IF Len(parts) = 1 THEN parts[1]
    ELSE parts[1] \o <<"\n">> \o JoinNewline(Tail(parts))

\* The messages formatted: up to MaxLines lines
Inputs ==
    UNION {{JoinNewline(ls) : ls \in [1..n -> Lines]} : n \in 1..MaxLines}

\* The maxLength arguments tried
MaxLengths == {-1, 2, 7, DefaultMaxLength}

\* Before any formatMessage call.
NoFormat ==
    [called |-> FALSE, input |-> <<>>, maxLength |-> DefaultMaxLength, br |-> "<br>",
     result |-> formatMessage(<<>>, DefaultMaxLength, "<br>")]

\* One call of formatMessage(input, maxLength), with the sanitizer writing
\* line breaks as br
format(input, maxLength, br) ==
    /\ fmtCall' = [called |-> TRUE, input |-> input, maxLength |-> maxLength,
                   br |-> br, result |-> formatMessage(input, maxLength, br)]
    /\ UNCHANGED <<now, ticks, prefix, hooks, commandDict, cmdCount, store, inflight,
                   reqCount, msgs, metrics, unhandled, runState, serverIds, sockets,
                   sioInstances, lastSent, emitted, lastCall, conf, timers, fetches,
                   lastJoin, lastCommand, builder, builds>>

-----------------------------------------------------------------------------
(* EmbedBuilder.  Text is a sequence of elements as for formatMessage;
   "null" and "undefined" stand for the JavaScript values of those names. *)

\* EMBED_ICONS
EMBED_ICONS ==
    ("error" :> "bx-x-circle") @@ ("warn" :> "bx-error") @@ ("info" :> "bx-info-circle")
        @@ ("success" :> "bx-check-circle") @@ ("note" :> "bx-note")
        @@ ("clean" :> "null") @@ ("default" :> "null")

\* EMBED_ICONS[embedType]
IconOf(embedType) ==
    IF embedType \in DOMAIN EMBED_ICONS THEN EMBED_ICONS[embedType] ELSE "undefined"

\* A string, null or undefined that counts as true
Truthy(v) == v \notin {"", "null", "undefined"}

\* new EmbedBuilder(embedType, title, description)
EmbedBuilder(embedType, title, description) ==
    [embedType |-> embedType, title |-> title, description |-> description,
     attachment |-> <<>>, authorHtml |-> <<>>, fieldsHtml |-> <<>>,
     showIcon |-> TRUE, customColor |-> "null", customIcon |-> "null"]

\* A setter: the builder changes, and the outputs remembered are those of
\* build() calls made since.
Assign(b) ==
    /\ builder' = b
    /\ builds' = <<>>
    /\ UNCHANGED <<now, ticks, prefix, hooks, commandDict, cmdCount, store, inflight,
                   reqCount, msgs, metrics, unhandled, runState, serverIds, sockets,
                   sioInstances, lastSent, emitted, lastCall, conf, timers, fetches,
                   lastJoin, lastCommand, fmtCall>>

setType(embedType) == Assign([builder EXCEPT !.embedType = embedType])

setColor(color) == Assign([builder EXCEPT !.customColor = color])

setIcon(iconClass) == Assign([builder EXCEPT !.customIcon = iconClass])

setTitle(text) == Assign([builder EXCEPT !.title = text])

setDescription(text) == Assign([builder EXCEPT !.description = text])

setAttachment(url) == Assign([builder EXCEPT !.attachment = url])

setAuthor(title, url) ==
    Assign([builder EXCEPT !.authorHtml =
               <<"<div class='center gap'><img class='avatar' loading='lazy' src='">>
                   \o url \o <<"'>">> \o title \o <<"</div>">>])

setShowIcon(state) == Assign([builder EXCEPT !.showIcon = state])

disableIcon == setShowIcon(FALSE)

\* addField(name, value, inline, color, icon): one more entry of fieldsHtml
addField(name, value, inline, color, icon) ==
    /\ Len(builder.fieldsHtml) < MaxFields
    /\ LET style      == IF Truthy(color) THEN <<" style='color: ", color, ";'">> ELSE <<>>
           iconHtml   == IF Truthy(icon) THEN <<"<i class='bx ", icon, "'></i>">> ELSE <<>>
           inlineHtml == IF inline THEN <<" inline">> ELSE <<>>
           valueHtml  == IF Truthy(color) \/ Truthy(icon)
                         THEN <<"<p class='center gap'">> \o style \o <<">">> \o iconHtml
                                  \o value \o <<"</p>">>
                         ELSE value
           fieldHtml  == <<"<div class='center gap">> \o inlineHtml \o <<"'><strong>">>
                             \o name \o <<"</strong> ">> \o valueHtml \o <<"</div>">>
       IN  Assign([builder EXCEPT !.fieldsHtml = Append(@, fieldHtml)])

\* code(content, language)
code(content, language) ==
    /\ Len(builder.fieldsHtml) < MaxFields
    /\ LET langClass == IF language # "" THEN <<"language-", language>> ELSE <<>>
           html      == <<"<pre><code class=\"">> \o langClass \o <<"\">">> \o content
                            \o <<"</code></pre>">>
       IN  Assign([builder EXCEPT !.fieldsHtml = Append(@, html)])

\* iconClass of build()
iconClass(b) == IF Truthy(b.customIcon) THEN b.customIcon ELSE IconOf(b.embedType)

\* iconHtml of build(): the icon element and the opening of its wrapper
iconHtml(b) ==
    IF b.showIcon /\ Truthy(iconClass(b))
    THEN <<"<i class='bx ", iconClass(b), "'></i>", "<div class='inline'>">>
    ELSE <<>>

iconEndHtmlShown(b) == IF b.showIcon THEN <<"</div>">> ELSE <<>>

\* iconEndHtml of build(): the closing of the wrapper
iconEndHtml(b) == IF b.showIcon /\ Truthy(iconClass(b)) THEN <<"</div>">> ELSE <<>>

\* The five segments of build(), in the order of the array literal
segments(b) ==
    LET attachmentHtml  == IF b.attachment # <<>>
                           THEN <<"<img class='attachment' src='">> \o b.attachment \o <<"'>">>
                           ELSE <<>>
        titleHtml       == IF b.title # <<>> THEN <<"<h4>">> \o b.title \o <<"</h4>">>
                           ELSE <<>>
        descriptionHtml == IF b.description # <<>> THEN b.description ELSE <<>>
        fieldsHtml      == IF Len(b.fieldsHtml) # 0 THEN JoinBr(b.fieldsHtml) ELSE <<>>
    IN  <<b.authorHtml, titleHtml, descriptionHtml, fieldsHtml, attachmentHtml>>

combinedContentUnfiltered(b) == JoinBr(segments(b))

\* combinedContent of build(): [...].filter(Boolean).join("<br>")
combinedContent(b) == JoinBr(SelectSeq(segments(b), NonEmpty))

\* What build() returns for a builder with fields b, with the three parts
\* of the template the icon and the content go into.
Built(b) ==
    LET typeClass       == IF b.embedType # "default" THEN <<" ", b.embedType>> ELSE <<>>
        iconParentClass == IF b.showIcon /\ (Truthy(b.customIcon) \/ Truthy(IconOf(b.embedType)))
                           THEN <<>> ELSE <<" block">>
        styleAttr       == IF Truthy(b.customColor)
                           THEN <<" style=\"--color: ", b.customColor, "\"">> ELSE <<>>
    IN  [output |-> <<"<div class='embed">> \o iconParentClass \o typeClass \o <<"'">>
                        \o styleAttr \o <<">">> \o iconHtml(b) \o combinedContent(b)
                        \o iconEndHtml(b) \o <<"</div>">>,
         iconHtml |-> iconHtml(b),
         combinedContent |-> combinedContent(b),
         iconEndHtml |-> iconEndHtml(b)]

buildAndReset ==
    /\ Len(builds) < MaxBuilds
    /\ builds' = Append(builds, Built(builder))
    /\ builder' = [builder EXCEPT !.fieldsHtml = <<>>]
    /\ UNCHANGED <<now, ticks, prefix, hooks, commandDict, cmdCount, store, inflight,
                   reqCount, msgs, metrics, unhandled, runState, serverIds, sockets,
                   sioInstances, lastSent, emitted, lastCall, conf, timers, fetches,
                   lastJoin, lastCommand, fmtCall>>

\* build()
build ==
    /\ Len(builds) < MaxBuilds
    /\ builds' = Append(builds, Built(builder))
    /\ UNCHANGED builder
    /\ UNCHANGED <<now, ticks, prefix, hooks, commandDict, cmdCount, store, inflight,
                   reqCount, msgs, metrics, unhandled, runState, serverIds, sockets,
                   sioInstances, lastSent, emitted, lastCall, conf, timers, fetches,
                   lastJoin, lastCommand, fmtCall>>

-----------------------------------------------------------------------------
(* Specifications *)

\* The state after `new Bot(options)` (lines 224-246).  Date.now() is far
\* above RATE_LIMIT_MS on any system.
Construct(options) ==
    LET config == validateConfig(options) IN
    /\ now = CACHE_TTL_MS
    /\ ticks = 0
    /\ prefix = config.prefix
    /\ hooks = [onError |-> config.onError, onStart |-> config.onStart,
                onMessage |-> config.onMessage]
    /\ commandDict = {}
    /\ cmdCount = 0
    /\ store = [u \in Urls |-> NoEntry]
    /\ inflight = {}
    /\ reqCount = [u \in Urls |-> 0]
    /\ msgs = <<>>
    /\ metrics = [messagesSent |-> 0, commandsProcessed |-> 0, errors |-> 0]
    /\ unhandled = 0
    /\ runState = [calls |-> 0, pending |-> 0, onStart |-> 0, startEvents |-> 0,
                   wipers |-> <<>>, wipes |-> 0, aborted |-> 0, onError |-> 0,
                   runs |-> <<>>]
    /\ serverIds = <<>>
    /\ sockets = <<>>
    /\ sioInstances = [s \in Servers |-> 0]
    /\ lastSent = [s \in Servers |-> 0]
    /\ emitted = <<>>
    /\ lastCall = [n |-> 0, server |-> "", msg |-> "", at |-> 0, prev |-> 0,
                   joined |-> FALSE, connected |-> FALSE, outcome |-> "none",
                   onError |-> 0, threw |-> FALSE]
    /\ conf = [autoReconnect |-> config.autoReconnect,
               reconnectAttempts |-> config.reconnectAttempts]
    /\ timers = <<>>
    /\ fetches = [n |-> 0, last |-> [u \in FetchUrls |-> NoFetch]]
    /\ lastJoin = [n |-> 0, server |-> "", joined |-> FALSE, outcome |-> "none"]
    /\ lastCommand = NoCommand
    /\ fmtCall = NoFormat
    /\ builder = EmbedBuilder("default", <<>>, <<>>)
    /\ builds = <<>>

Init == \E options \in Options : Construct(options)

\* Dispatch never invokes onStart.
InitDispatch ==
    \E options \in Options :
        /\ ~options.onStart
        /\ options.autoReconnect = defaultOptions.autoReconnect
        /\ options.reconnectAttempts = defaultOptions.reconnectAttempts
        /\ Construct(options)

\* Sending reads neither the prefix nor the onStart and onMessage hooks,
\* and no socket event occurs.
InitSend ==
    \E options \in Options :
        /\ options.prefix = defaultOptions.prefix
        /\ options.onStart = defaultOptions.onStart
        /\ options.onMessage = defaultOptions.onMessage
        /\ options.autoReconnect = defaultOptions.autoReconnect
        /\ options.reconnectAttempts = defaultOptions.reconnectAttempts
        /\ Construct(options)

Register ==
    /\ cmdCount < MaxCommands
    /\ \E name \in CmdNames \cup {<<>>}, func \in Funcs \cup {"notAFunction"} :
           command(name, func)

Receive == \E p \in Payloads : onSocketMessage(p)

SenderAnswered == \E r \in inflight, o \in Outcomes : RespondIsBot(r, o)

ServerAnswered == \E r \in inflight, o \in Outcomes : RespondFetchServer(r, o)

IdentityAnswered ==
    \E r \in inflight, o \in Outcomes, srv \in ServerLists : RespondRun(r, o, srv)

Send == \E message \in MsgKinds, serverId \in Servers : send(message, serverId)

SendClock == \E d \in SendSteps : Tick(d)

\* Inbound dispatch: registration, socket events and the lookups they await.
NextDispatch == Register \/ Receive \/ SenderAnswered \/ ServerAnswered

SpecDispatch == InitDispatch /\ [][NextDispatch]_vars

\* Outbound sends of a started bot against the clock.
NextSend == run \/ IdentityAnswered \/ Send \/ SendClock

SpecSend == InitSend /\ [][NextSend]_vars

\* The options with the default prefix and hooks, and a small
\* reconnectAttempts.
InitConn ==
    \E options \in Options :
        /\ options.prefix = defaultOptions.prefix
        /\ options.onError = defaultOptions.onError
        /\ options.onStart = defaultOptions.onStart
        /\ options.onMessage = defaultOptions.onMessage
        /\ options.reconnectAttempts <= MaxReconnectAttempts
        /\ Construct(options)

SocketConnected == \E k \in 1..Len(sockets) : SocketConnect(k)

SocketDisconnected == \E k \in 1..Len(sockets) : SocketDisconnect(k)

SocketFailed == \E k \in 1..Len(sockets) : SocketConnectError(k)

RetryFired == \E i \in 1..Len(timers) : RetryTimer(i)

\* The sockets of a started bot: their events and the retries they schedule.
NextConn == run \/ IdentityAnswered \/ SocketConnected \/ SocketDisconnected
            \/ SocketFailed \/ RetryFired

SpecConn == InitConn /\ [][NextConn]_vars

\* Sends of a started bot over sockets that connect and disconnect.
NextLink == run \/ IdentityAnswered \/ SocketConnected \/ SocketDisconnected \/ Send

SpecLink == InitSend /\ [][NextLink]_vars

\* The default prefix, onMessage hook and connection options; the onStart
\* and onError hooks may throw.
InitStart ==
    \E options \in Options :
        /\ options.prefix = defaultOptions.prefix
        /\ options.onMessage = defaultOptions.onMessage
        /\ options.autoReconnect = defaultOptions.autoReconnect
        /\ options.reconnectAttempts = defaultOptions.reconnectAttempts
        /\ Construct(options)

Join == \E serverId \in Servers : join(serverId)

JoinAnswered == \E r \in inflight, o \in Outcomes : RespondJoin(r, o)

\* Startup, and servers joined before and after it.
NextStart == run \/ IdentityAnswered \/ Join \/ JoinAnswered

SpecStart == InitStart /\ [][NextStart]_vars

\* A bot that is in no server, with the default options, at the end of the
\* task in which its run() completed: the identity is cached and the cache
\* wiper is armed (the state run and IdentityAnswered reach from Init when
\* the lookup is answered at once with an empty server list).
Started ==
    /\ now = CACHE_TTL_MS
    /\ ticks = 0
    /\ prefix = defaultPrefix
    /\ hooks = [onError |-> FALSE, onStart |-> FALSE, onMessage |-> FALSE]
    /\ commandDict = {}
    /\ cmdCount = 0
    /\ store = CacheSet([u \in Urls |-> NoEntry], UserUrl(BotId),
                        ApiData(UserUrl(BotId), <<>>), CACHE_TTL_MS)
    /\ inflight = {}
    /\ reqCount = [u \in Urls |-> IF u = UserUrl(BotId) THEN 1 ELSE 0]
    /\ msgs = <<>>
    /\ metrics = [messagesSent |-> 0, commandsProcessed |-> 0, errors |-> 0]
    /\ unhandled = 0
    /\ runState = [calls |-> 1, pending |-> 0, onStart |-> 1, startEvents |-> 1,
                   wipers |-> <<CACHE_TTL_MS + CACHE_TTL_MS>>, wipes |-> 0,
                   aborted |-> 0, onError |-> 0,
                   runs |-> <<[NewRun EXCEPT !.status = "done", !.onStart = 1, !.start = 1]>>]
    /\ serverIds = <<>>
    /\ sockets = <<>>
    /\ sioInstances = [s \in Servers |-> 0]
    /\ lastSent = [s \in Servers |-> 0]
    /\ emitted = <<>>
    /\ lastCall = [n |-> 0, server |-> "", msg |-> "", at |-> 0, prev |-> 0,
                   joined |-> FALSE, connected |-> FALSE, outcome |-> "none",
                   onError |-> 0, threw |-> FALSE]
    /\ conf = [autoReconnect |-> TRUE, reconnectAttempts |-> DefaultReconnectAttempts]
    /\ timers = <<>>
    /\ fetches = [n |-> 0, last |-> [u \in FetchUrls |-> NoFetch]]
    /\ lastJoin = [n |-> 0, server |-> "", joined |-> FALSE, outcome |-> "none"]
    /\ lastCommand = NoCommand
    /\ fmtCall = NoFormat
    /\ builder = EmbedBuilder("default", <<>>, <<>>)
    /\ builds = <<>>

InitCache == Started

\* User code awaits each lookup before it makes the next.
Fetch ==
    \E url \in FetchUrls :
        /\ \A r \in inflight : r.kind # "fetch"
        /\ getJsonCacheCall(url)

FetchAnswered == \E r \in inflight, o \in Outcomes : RespondFetch(r, o)

WiperFired == \E k \in 1..Len(runState.wipers) : Wipe(k)

CacheClock == \E d \in CacheSteps : Tick(d)

\* Lookups by user code against expiry and the cache wiper of a started bot.
NextCache == Fetch \/ FetchAnswered \/ WiperFired
             \/ CacheClock

SpecCache == InitCache /\ [][NextCache]_vars

\* A bot constructed with the default options.
Constructed == Construct(defaultOptions)

\* The Contexts of the messages of one human sender, under the default
\* options: a registered command, the lookups, the cache they fill.
NextContext ==
    \/ cmdCount < MaxCommands /\ \E func \in Funcs : command(<<"a">>, func)
    \/ \E t \in {<<"h", "i">>, <<"!", "a">>} :
           onSocketMessage(Payload(TRUE, "u1", TRUE, t, "s1"))
    \/ SenderAnswered
    \/ ServerAnswered

SpecContext == Constructed /\ [][NextContext]_vars

\* Registrations by user code, one after the other.
Registration ==
    /\ cmdCount < MaxRegistrations
    /\ \E name \in CmdNames \cup {<<>>}, func \in Funcs \cup {"notAFunction"} :
           command(name, func)

SpecRegistry == Constructed /\ [][Registration]_vars

\* formatMessage keeps no state between calls: a run formats one message.
Format ==
    /\ ~fmtCall.called
    /\ \E input \in Inputs, maxLength \in MaxLengths, br \in BreakForms :
           format(input, maxLength, br)

SpecFormat == Constructed /\ [][Format]_vars

\* The calls user code makes on one EmbedBuilder, with the arguments tried.
NextEmbed ==
    \/ \E embedType \in {"default", "info", "custom"} : setType(embedType)
    \/ setColor("red")
    \/ \E ic \in {"", "bx-star"} : setIcon(ic)
    \/ \E text \in {<<>>, <<"T">>} : setTitle(text)
    \/ \E text \in {<<>>, <<"D">>} : setDescription(text)
    \/ \E url \in {<<>>, <<"u">>} : setAttachment(url)
    \/ setAuthor(<<"A">>, <<"u">>)
    \/ \E state \in BOOLEAN : setShowIcon(state)
    \/ disableIcon
    \/ addField(<<"N">>, <<"V">>, FALSE, "null", "null")
    \/ addField(<<"N">>, <<"V">>, TRUE, "red", "bx-star")
    \/ code(<<"C">>, "js")
    \/ build

SpecEmbed == Constructed /\ [][NextEmbed]_vars

Next == NextDispatch \/ NextSend \/ NextConn \/ NextLink \/ NextStart \/ NextCache \/ Registration
          \/ Format \/ NextEmbed

Spec == Init /\ [][Next]_vars

-----------------------------------------------------------------------------
(* Properties *)

Idx == 1..Len(msgs)

InSeq(x, seq) == \E k \in 1..Len(seq) : seq[k] = x

\* The message passed the envelope check of onSocketMessage and its
\* dispatch has run to its end.
Dispatched(m) == m.pc = "done"

\* C1: at no time are two network requests in flight for the same URL
\* (concurrent getJsonCache calls for an uncached URL share one request).
C1_SingleFlight ==
    \A u \in Urls : Cardinality({r \in inflight : r.url = u}) <= 1

\* C2: a message whose sender the platform flags as automated never reaches
\* the onMessage hook or a command handler, whatever the sender lookup did.
C2_BotNeverDispatched ==
    \A i \in Idx :
        msgs[i].sender \in BotAccounts =>
            msgs[i].onMessage = 0 /\ msgs[i].handlerCalls = <<>>

\* C3: an accepted message from a sender that is not automated gets exactly
\* one Context and one onMessage invocation, and at most one handler
\* invocation, which happens only if the text begins with the prefix.
C3_ExactlyOnce ==
    \A i \in Idx :
        (Dispatched(msgs[i]) /\ msgs[i].sender \notin BotAccounts) =>
            /\ msgs[i].ctx = 1
            /\ msgs[i].onMessage = 1
            /\ Len(msgs[i].handlerCalls) <= 1
            /\ (msgs[i].handlerCalls # <<>> =>
                    msgs[i].hasText /\ StartsWith(msgs[i].text, prefix))

\* The command name and the argument string that stripping exactly
\* Len(pfx) characters yields.
NameAfterPrefix(text, pfx) == SplitSpace(Trim(Slice(text, Len(pfx))))[1]

ArgAfterPrefix(text, pfx) == JoinSpace(Tail(SplitSpace(Trim(Slice(text, Len(pfx))))))

\* C4: when dispatch looks a command up, the name is the first token of the
\* text after exactly Len(prefix) characters, and a handler that takes
\* arguments gets the remaining tokens joined.
C4_PrefixLength ==
    \A i \in Idx :
        msgs[i].cmd # <<>> =>
            /\ ToLowerCase(msgs[i].cmd[1]) =
                   ToLowerCase(NameAfterPrefix(msgs[i].text, prefix))
            /\ \A k \in 1..Len(msgs[i].handlerCalls) :
                   msgs[i].handlerCalls[k].args # <<>> =>
                       msgs[i].handlerCalls[k].args[1] =
                           ArgAfterPrefix(msgs[i].text, prefix)

\* Message i reaches the command lookup in this step.
LooksUp(i) ==
    /\ i \in 1..Len(msgs')
    /\ msgs'[i].cmd # <<>>
    /\ (i > Len(msgs) \/ msgs[i].cmd = <<>>)

\* C5: when dispatch looks up a token that equals a registered name up to
\* letter case, the handler registered under that name is invoked.
C5_CaseInsensitive ==
    [][ \A i \in 1..MaxMsgs : \A e \in commandDict :
          (LooksUp(i) /\ ToLowerCase(e.name) = ToLowerCase(msgs'[i].cmd[1])) =>
              \E k \in 1..Len(msgs'[i].handlerCalls) :
                  msgs'[i].handlerCalls[k].func = e.func ]_vars

\* C6: a payload that carries text, owner and server_id at its top level is
\* dispatched like one that nests the message: it is not dropped.
C6_BothShapes ==
    \A i \in Idx :
        (~msgs[i].nested /\ msgs[i].hasText /\ msgs[i].server_id # "") =>
            msgs[i].pc # "dropped"

\* C7: a message without a sender id or without text creates no Context,
\* reaches no hook or handler, and raises no error.
C7_MalformedDropped ==
    \A i \in Idx :
        (msgs[i].sender = "undefined" \/ ~msgs[i].hasText) =>
            /\ msgs[i].ctx = 0
            /\ msgs[i].onMessage = 0
            /\ msgs[i].handlerCalls = <<>>
            /\ ~msgs[i].escaped

\* C8: a prefixed message naming an unregistered command invokes no
\* handler, is reported through onError and the log as an unknown command,
\* and its dispatch ends without a rejected promise.
C8_UnknownCommand ==
    \A i \in Idx :
        (msgs[i].cmd # <<>> /\ ~msgs[i].found) =>
            /\ msgs[i].handlerCalls = <<>>
            /\ InSeq("unknown_command", msgs[i].onErrorCalls)
            /\ InSeq("unknown_command", msgs[i].log)
            /\ ~msgs[i].escaped

\* C9: no failure raised while a message is dispatched leaves
\* checkNewCommand as a rejected promise.
C9_NoEscape ==
    \A i \in Idx : ~msgs[i].escaped

\* The last send went to a joined server that had a successful send at
\* lastCall.prev, and came within / after the rate-limit window.
InWindow  == lastCall.n > 0 /\ lastCall.joined /\ lastCall.prev > 0
             /\ lastCall.at < lastCall.prev + RATE_LIMIT_MS

PastWindow == lastCall.n > 0 /\ lastCall.joined /\ lastCall.prev > 0
              /\ lastCall.at >= lastCall.prev + RATE_LIMIT_MS

\* C10 as stated: any send inside the window is rejected with the
\* rate-limit error, and a valid send at or after its end succeeds.
C10_AnySendRateLimited ==
    /\ InWindow => lastCall.outcome = "rate_limit"
    /\ (PastWindow /\ lastCall.msg = "text") => lastCall.outcome = "sent"

\* C10 amended: a send of a non-empty string inside the window is rejected
\* with the rate-limit error and emits nothing, a send of anything else
\* inside the window is rejected with the invalid-message error, and a send
\* of a non-empty string at or after the end of the window succeeds.
C10_RateLimit ==
    /\ (InWindow /\ lastCall.msg = "text") =>
           /\ lastCall.outcome = "rate_limit"
           /\ lastSent[lastCall.server] = lastCall.prev
    /\ (InWindow /\ lastCall.msg # "text") => lastCall.outcome = "invalid_message"
    /\ (PastWindow /\ lastCall.msg = "text") =>
           /\ lastCall.outcome = "sent"
           /\ lastSent[lastCall.server] = lastCall.at
           /\ emitted[Len(emitted)].server = lastCall.server

\* A server got two sends one full window apart, both emitted, and then a
\* third send inside the window, which was rejected.
C10_Witness ==
    /\ InWindow
    /\ lastCall.msg = "text"
    /\ lastCall.outcome = "rate_limit"
    /\ \E j, k \in 1..Len(emitted) :
          /\ j < k
          /\ emitted[j].server = lastCall.server
          /\ emitted[k].server = lastCall.server
          /\ emitted[k].at = emitted[j].at + RATE_LIMIT_MS

\* The step is a call of send.
IsSend == lastCall'.n = lastCall.n + 1

\* C11: a send that is rejected emits nothing, then or later, and leaves
\* every lastSent time and the messagesSent counter unchanged; a successful
\* send to a server emits one payload, on that server's socket, and changes
\* the lastSent time of that server only; no other step emits anything.
C11_SendFrame ==
    [][ /\ (IsSend /\ lastCall'.outcome # "sent") =>
              /\ emitted' = emitted
              /\ lastSent' = lastSent
              /\ metrics'.messagesSent = metrics.messagesSent
        /\ (IsSend /\ lastCall'.outcome = "sent") =>
              /\ Len(emitted') = Len(emitted) + 1
              /\ emitted'[Len(emitted')].server = lastCall'.server
              /\ metrics'.messagesSent = metrics.messagesSent + 1
              /\ \A s \in Servers \ {lastCall'.server} : lastSent'[s] = lastSent[s]
        /\ ~IsSend => emitted' = emitted ]_vars

\* Three sends: one to each of two servers at different times, both
\* emitted, and a rejected one; the two lastSent times differ.
C11_Witness ==
    /\ lastCall.n = 3
    /\ Len(emitted) = 2
    /\ emitted[1].server # emitted[2].server
    /\ lastCall.outcome = "sent"
    /\ lastSent[emitted[1].server] = emitted[1].at
    /\ lastSent[emitted[2].server] = emitted[2].at
    /\ emitted[1].at < emitted[2].at

\* C12: a send to a server the bot has no connected socket for, because
\* the socket is missing or because it is not connected, emits nothing and
\* is reported through onError.
C12_NoSendUnlessConnected ==
    (lastCall.n > 0 /\ ~lastCall.connected) =>
        /\ lastCall.outcome # "sent"
        /\ lastCall.onError = 1

SocketsOf(s) == {k \in 1..Len(sockets) : sockets[k].server = s}

\* C13: for a server none of whose sockets ever connected, at most
\* reconnectAttempts + 1 connections are ever made.
C13_BoundedAttempts ==
    \A s \in Servers :
        (\A k \in SocketsOf(s) : ~sockets[k].opened) =>
            Cardinality(SocketsOf(s)) <= conf.reconnectAttempts + 1

\* C14: no server has two sockets that are connected at the same time, each
\* of which would deliver an inbound message to onSocketMessage.
C14_OneLiveSocket ==
    \A s \in Servers :
        Cardinality({k \in SocketsOf(s) : sockets[k].connected}) <= 1

\* C15: once sioInstances holds a socket for a server, no step puts another
\* socket in its place.
C15_NeverReplaced ==
    [][ \A s \in Servers :
          sioInstances[s] # 0 => sioInstances'[s] = sioInstances[s] ]_vars

\* The step is a call of join for a server that is in serverIds.
IsRejoin(s) == lastJoin'.n = lastJoin.n + 1 /\ lastJoin'.server = s /\ InList(s, serverIds)

\* C16: a join for a server id that is already joined is rejected: it
\* issues no network call, creates no socket and leaves the connection
\* table and the list of joined servers as they are.
C16_RejoinRejected ==
    [][ \A s \in Servers :
          IsRejoin(s) =>
              /\ lastJoin'.outcome = "rejected"
              /\ inflight' = inflight
              /\ sockets' = sockets
              /\ sioInstances' = sioInstances
              /\ serverIds' = serverIds ]_vars

\* A join of a server that an earlier join had added was rejected, and the
\* server still has the one socket that join opened.
C16_Witness ==
    /\ lastJoin.n = 2
    /\ lastJoin.joined
    /\ lastJoin.outcome = "rejected"
    /\ runState.calls = 0
    /\ Cardinality(SocketsOf(lastJoin.server)) = 1

Runs == 1..Len(runState.runs)

Covers(list, servers) == \A k \in 1..Len(list) : list[k] \in servers

\* C17: whenever run() has invoked onStart, or emitted "start", it had
\* created a socket for every server id the identity lookup returned; no
\* run() does either more than once, and a run() that reaches its end has
\* done each exactly once.
C17_StartAfterConnections ==
    \A n \in Runs :
        LET r == runState.runs[n] IN
        /\ r.onStart > 0 => Covers(r.listed, r.hookSaw)
        /\ r.start > 0 => Covers(r.listed, r.eventSaw)
        /\ r.onStart <= 1
        /\ r.start <= 1
        /\ r.status = "done" => (r.onStart = 1 /\ r.start = 1)

\* A run() whose lookup returned two servers reached its end.
C17_Witness ==
    \E n \in Runs :
        /\ runState.runs[n].status = "done"
        /\ Len(runState.runs[n].listed) = 2
        /\ runState.runs[n].opened = 2
        /\ runState.runs[n].start = 1

\* C18: a run() whose identity lookup failed opens no connection, invokes
\* no onStart, emits no "start" and reports the failure through onError;
\* every run() whose lookup succeeded invokes onStart and emits "start".
C18_OnlyLookupAborts ==
    \A n \in Runs :
        LET r == runState.runs[n] IN
        /\ r.status = "aborted" =>
              (r.opened = 0 /\ r.onStart = 0 /\ r.start = 0 /\ r.onError >= 1)
        /\ r.status \in {"failed", "done"} => (r.onStart = 1 /\ r.start = 1)

\* The step is a getUser / getServer call for url u.
IsFetch(u) == fetches'.n = fetches.n + 1 /\ fetches'.last[u].n = fetches'.n

\* The latest lookup of u by user code failed, it was made no longer ago
\* than the TTL, and the cache has never been cleared.
FailedWithinTtl(u) ==
    /\ fetches.last[u].result = "null"
    /\ now <= fetches.last[u].at + CACHE_TTL_MS
    /\ runState.wipes = 0

\* C19: after a lookup of a URL failed, a later lookup of it within the
\* TTL issues no network request and resolves to null.
C19_FailureCached ==
    [][ \A u \in FetchUrls :
          (IsFetch(u) /\ FailedWithinTtl(u)) =>
              /\ reqCount'[u] = reqCount[u]
              /\ fetches'.last[u].result = "null" ]_vars

\* The entry a lookup found had expired.
FoundExpired(f) == f.entry.present /\ f.at > f.entry.expiry

\* The lookup found no entry because clear() had removed it.
FoundWiped(f) == f.entry.wiped # "no"

C21_GetReturnsStored ==
    \A u \in FetchUrls :
        LET f == fetches.last[u] IN
        f.n > 0 =>
            IF f.entry.present /\ f.at <= f.entry.expiry
            THEN ~f.requested /\ f.result = "data" /\ f.value = f.entry.value
            ELSE f.requested

C21_Witness ==
    \E u, v \in FetchUrls :
        /\ fetches.last[u].n > 0 /\ fetches.last[v].n > 0
        /\ fetches.last[u].entry.present
        /\ fetches.last[u].at <= fetches.last[u].entry.expiry
        /\ fetches.last[u].value = ApiData(u, <<>>)
        /\ fetches.last[v].entry.present
        /\ fetches.last[v].at > fetches.last[v].entry.expiry
        /\ fetches.last[v].requested

\* A step that is a command() call.
IsCommand == cmdCount' = cmdCount + 1

\* C22: registering a name that is already registered does not throw; it
\* warns, the name then maps to the handler just registered, and every other
\* name keeps its handler.
C22_Overwrite ==
    [][(IsCommand /\ lastCommand'.name # <<>> /\ lastCommand'.func \in Funcs
          /\ DictHas(commandDict, lastCommand'.name))
       => /\ ~lastCommand'.threw
          /\ lastCommand'.warned
          /\ DictGet(commandDict', lastCommand'.name) = lastCommand'.func
          /\ \A n \in CmdNames \ {lastCommand'.name} :
                 DictGet(commandDict', n) = DictGet(commandDict, n)]_vars

C22_Witness ==
    /\ lastCommand.warned
    /\ \A n \in CmdNames : DictHas(commandDict, n)

\* C23: command() throws when the name is empty or no string or the handler
\* is no function, and then the command table is as it was.
C23_InvalidThrows ==
    [][(IsCommand /\ (lastCommand'.name = <<>> \/ lastCommand'.func \notin Funcs))
       => (lastCommand'.threw /\ commandDict' = commandDict)]_vars

C23_Witness ==
    /\ lastCommand.threw
    /\ lastCommand.name # <<>>
    /\ lastCommand.func \notin Funcs
    /\ commandDict # {}

\* The strings put behind a common beginning
Tails == {<<"a">>, <<"b">>, <<":", "x">>}

\* C24 (as claimed): formatMessage(s, maxLength) is the same for every string
\* longer than maxLength that agrees with s on its first maxLength characters.
C24_FirstCharsOnly ==
    (fmtCall.called /\ fmtCall.maxLength >= 0
       /\ Len(fmtCall.input) > fmtCall.maxLength) =>
        \A tail \in Tails :
            formatMessage(SubSeq(fmtCall.input, 1, fmtCall.maxLength) \o tail,
                          fmtCall.maxLength, fmtCall.br).output
                = fmtCall.result.output

\* C24 (amended): for maxLength >= 0, formatMessage(s, maxLength) is the same
\* for every string whose trimmed form is longer than maxLength and agrees
\* with the trimmed s on its first maxLength characters.
C24_FirstTrimmedCharsOnly ==
    (fmtCall.called /\ fmtCall.maxLength >= 0
       /\ Len(Trim(fmtCall.input)) > fmtCall.maxLength) =>
        \A tail \in Tails, lead \in {<<>>, <<" ">>} :
            formatMessage(lead \o SubSeq(Trim(fmtCall.input), 1, fmtCall.maxLength) \o tail,
                          fmtCall.maxLength, fmtCall.br).output
                = fmtCall.result.output

C24_Witness ==
    /\ fmtCall.called
    /\ Len(Trim(fmtCall.input)) > fmtCall.maxLength
    /\ fmtCall.input # <<>>
    /\ IsSpace(Head(fmtCall.input))
    /\ fmtCall.result.output # <<>>

\* The sanitized text starts, ignoring letter case, with key k and a colon.
EmbedMatches(k) ==
    StartsWith(ToLowerCase(fmtCall.result.sanitized), EMBED_TYPES[k].key \o <<":">>)

\* The output is the embed container of key k with its icon.
RendersEmbed(k) ==
    LET out == fmtCall.result.output IN
    /\ Len(out) >= 4
    /\ SubSeq(out, 1, 3) = <<"<div class=\"", EMBED_TYPES[k].className, "\">">>
    /\ out[Len(out)] = "</div>"
    /\ IF EMBED_TYPES[k].icon = "" THEN out[4] # "<i class=\""
       ELSE Len(out) >= 7 /\ out[4] = "<i class=\"" /\ out[5] = EMBED_TYPES[k].icon

\* C25: the embed of key k is rendered exactly when the sanitized text
\* starts, ignoring case, with k and a colon and no longer embed key with a
\* colon does.
C25_LongestEmbedKey ==
    fmtCall.called =>
        \A k \in 1..Len(EMBED_TYPES) :
            /\ fmtCall.result.embed = k
                 <=> /\ EmbedMatches(k)
                     /\ \A j \in 1..Len(EMBED_TYPES) :
                            EmbedMatches(j) =>
                                Len(EMBED_TYPES[j].key) <= Len(EMBED_TYPES[k].key)
            /\ fmtCall.result.embed = k => RendersEmbed(k)
            /\ RendersEmbed(k) => fmtCall.result.embed = k

C25_Witness ==
    /\ fmtCall.called
    /\ \E k, j \in 1..Len(EMBED_TYPES) :
          /\ fmtCall.result.embed = k
          /\ j # k
          /\ EmbedMatches(j)
          /\ RendersEmbed(k)
          /\ EMBED_TYPES[k].icon # ""
    /\ ToLowerCase(fmtCall.result.sanitized) # fmtCall.result.sanitized

\* The output is an attachment media tag.
IsMediaTag ==
    /\ fmtCall.result.output # <<>>
    /\ \E a \in 1..Len(ATTACHMENTS) : fmtCall.result.output[1] = ATTACHMENTS[a].open

Prefixing(line) ==
    {k \in 1..Len(FORMAT_SHORTCUTS) : StartsWith(line, FORMAT_SHORTCUTS[k].key \o <<":">>)}

\* line wrapped by the first shortcut that prefixes it, or as it is.
WrappedByFirst(line) ==
    IF Prefixing(line) = {} THEN line
    ELSE LET k == CHOOSE m \in Prefixing(line) : \A j \in Prefixing(line) : m <= j IN
         <<FORMAT_SHORTCUTS[k].open>>
             \o Trim(Slice(line, Len(FORMAT_SHORTCUTS[k].key) + 1))
             \o <<FORMAT_SHORTCUTS[k].close>>

\* C27 (as claimed): for non-embed input the output is the lines of the
\* sanitized text, each wrapped by the first shortcut whose `key:` prefixes
\* it or else verbatim, joined by line breaks.
C27_LinesVerbatim ==
    (fmtCall.called /\ fmtCall.result.embed = 0) =>
        LET raw == SplitBr(fmtCall.result.sanitized) IN
        fmtCall.result.output = JoinBr([i \in 1..Len(raw) |-> WrappedByFirst(raw[i])])

\* C27 (amended): for non-embed input at most one shortcut prefixes a line;
\* each line is trimmed and then wrapped by the first shortcut whose `key:`
\* prefixes it or else kept as trimmed, empty lines are dropped, and the
\* output is the lines joined by line breaks, or the media tag made of that
\* text when it starts with an attachment prefix.
C27_LinesTrimmed ==
    (fmtCall.called /\ fmtCall.result.embed = 0) =>
        LET raw    == SplitBr(fmtCall.result.sanitized)
            joined == JoinBr(SelectSeq([i \in 1..Len(raw) |-> WrappedByFirst(Trim(raw[i]))],
                                       NonEmpty))
            att    == {a \in 1..Len(ATTACHMENTS) :
                          StartsWith(joined, ATTACHMENTS[a].key \o <<":">>)}
        IN  /\ \A i \in 1..Len(raw) : Cardinality(Prefixing(Trim(raw[i]))) <= 1
            /\ att = {} => fmtCall.result.output = joined
            /\ att # {} =>
                  \E a \in att :
                      fmtCall.result.output =
                          <<ATTACHMENTS[a].open>>
                              \o Trim(Slice(joined, Len(ATTACHMENTS[a].key) + 1))
                              \o <<ATTACHMENTS[a].close>>

C27_Witness ==
    /\ fmtCall.called
    /\ fmtCall.result.embed = 0
    /\ ~IsMediaTag
    /\ \E i, j \in 1..Len(fmtCall.result.lines) :
          /\ fmtCall.result.wraps[i] # 0
          /\ fmtCall.result.wraps[j] = 0
          /\ fmtCall.result.lines[j] # <<>>
          /\ Trim(SplitBr(fmtCall.result.sanitized)[j]) # SplitBr(fmtCall.result.sanitized)[j]

\* A step that is a build() call.
IsBuild == Len(builds') = Len(builds) + 1

\* C28: build() changes no field of the builder, and it returns what every
\* build() call since the last setter call returned.
C28_BuildIsPure ==
    [][IsBuild =>
          /\ builder' = builder
          /\ \A i \in 1..Len(builds) :
                 builds[i].output = builds'[Len(builds')].output]_vars

C28_Witness ==
    /\ Len(builds) >= 2
    /\ builder.fieldsHtml # <<>>
    /\ builds[1].combinedContent # <<>>

\* An icon can be resolved for the builder: its custom icon, else the
\* default icon of its type.
Resolved ==
    IF builder.customIcon \notin {"null", ""} THEN builder.customIcon
    ELSE IF builder.embedType \in {"error", "warn", "info", "success", "note"}
         THEN EMBED_ICONS[builder.embedType]
         ELSE "none"

\* C29: in every build() output the icon element, the opening and the
\* closing of its wrapper are all present when showIcon is true and an icon
\* is resolvable, and all absent otherwise.
C29_IconAllOrNothing ==
    \A i \in 1..Len(builds) :
        LET out == builds[i].output
            n   == Len(builds[i].iconHtml) + Len(builds[i].combinedContent)
            k   == Len(out) - Len(builds[i].iconEndHtml) - n
        IN  IF builder.showIcon /\ Resolved # "none"
            THEN /\ builds[i].iconHtml =
                        <<"<i class='bx ", Resolved, "'></i>", "<div class='inline'>">>
                 /\ builds[i].iconEndHtml = <<"</div>">>
                 /\ SubSeq(out, k, k + 3) = builds[i].iconHtml
                 /\ SubSeq(out, Len(out) - 1, Len(out)) = <<"</div>", "</div>">>
            ELSE /\ builds[i].iconHtml = <<>>
                 /\ builds[i].iconEndHtml = <<>>
                 /\ \A j \in 1..Len(out) :
                        out[j] \notin {"<i class='bx ", "<div class='inline'>"}
                            \/ (j > k - 1 /\ j < k + n)

C29_Witness ==
    /\ Len(builds) >= 1
    /\ builder.showIcon
    /\ builder.customIcon = ""
    /\ builder.embedType = "info"
    /\ builds[1].iconEndHtml # <<>>

\* The non-empty ones among author, title, description, each field and
\* attachment, in that order.
Pieces ==
    LET s == segments(builder) IN
    SelectSeq(<<s[1], s[2], s[3]>> \o builder.fieldsHtml \o <<s[5]>>, NonEmpty)

\* C30: the content of every build() output is its non-empty segments in the
\* order author, title, description, fields as added, attachment, with
\* exactly one line break between neighbours and none before or after.
C30_SegmentsInOrder ==
    \A i \in 1..Len(builds) :
        IF Pieces = <<>> THEN builds[i].combinedContent = <<>>
        ELSE SplitBr(builds[i].combinedContent) = Pieces

C30_Witness ==
    /\ Len(builds) >= 1
    /\ builder.authorHtml = <<>>
    /\ builder.title # <<>>
    /\ builder.description = <<>>
    /\ Len(builder.fieldsHtml) = 2
    /\ builder.attachment # <<>>

-----------------------------------------------------------------------------
(* Inbound dispatch: the message object, ordering, the Context *)

\* C31: dispatching an inbound message leaves the received message object
\* unchanged: the name of its owner stays as it was received.
C31_MessageUnchanged ==
    \A i \in 1..Len(msgs) : msgs[i].ownerName = msgs[i].name

\* The retries scheduled for server s, in the order they were scheduled.
RECURSIVE ForServer(_, _)
ForServer(seq, s) ==
    IF seq = <<>> THEN <<>>
    ELSE IF seq[Len(seq)].server = s
         THEN Append(ForServer(SubSeq(seq, 1, Len(seq) - 1), s), seq[Len(seq)])
         ELSE ForServer(SubSeq(seq, 1, Len(seq) - 1), s)

\* C32: the retry scheduled after failed connection attempt number k of a
\* server (k = 0, 1, ...) is delayed by reconnectBaseDelay * 2^k: every
\* retry delay of a server is double the one before it.
C32_DelayDoubles ==
    \A s \in Servers :
        LET r == ForServer(timers, s) IN
        \A n \in 1..Len(r) : r[n].delay = reconnectBaseDelay * Pow2(n - 1)

\* The same without the transport's own reconnection.
C32_DelayDoublesPlain == ~conf.autoReconnect => C32_DelayDoubles

\* C33: two messages received on the same server connection reach the
\* onMessage hook in the order they arrived, whatever the order in which
\* their sender lookups are answered.
C33_ArrivalOrder ==
    \A i, j \in 1..Len(msgs) :
        (/\ i < j
         /\ msgs[i].server_id = msgs[j].server_id
         /\ msgs[i].onMessage > 0
         /\ msgs[j].onMessage > 0) => msgs[i].hookSeq < msgs[j].hookSeq

\* C34: when the onMessage hook and the command handler are invoked for a
\* message, the `server` field of its Context is still null, also when the
\* server's metadata is in the cache.
C34_ServerUnsetAtInvocation ==
    \A i \in 1..Len(msgs) :
        /\ msgs[i].onMessage > 0 => msgs[i].hookSaw = "null"
        /\ \A k \in 1..Len(msgs[i].handlerCalls) :
               msgs[i].handlerCalls[k].server = "null"

\* A handler ran for a message whose server was in the cache; the Context
\* got the metadata once the dispatch had returned.
C34_Witness ==
    \E i \in 1..Len(msgs) :
        /\ msgs[i].serverCached
        /\ msgs[i].hookSaw = "null"
        /\ msgs[i].handlerCalls # <<>>
        /\ msgs[i].handlerCalls[1].server = "null"
        /\ msgs[i].ctxServer = "data"

\* In this step the dispatch of message i gets past the onMessage hook: the
\* sender is no bot and the hook returned.
PassesHook(i) ==
    /\ i \in 1..Len(msgs')
    /\ msgs'[i].processed = 1
    /\ (i > Len(msgs) \/ msgs[i].processed = 0)

\* The text is the prefix followed by the command name n.
Naming(m, n) ==
    /\ m.hasText
    /\ StartsWith(m.text, prefix)
    /\ Len(m.text) > Len(prefix)
    /\ NameAfterPrefix(m.text, prefix) = n

\* C35: the command table is the one table of the process: whenever a Bot
\* dispatches a prefixed message naming n, it invokes the handler that the
\* latest command(n, f) put into the table.
C35_SharedTable ==
    [][ \A i \in 1..MaxMsgs : \A e \in commandDict :
          (PassesHook(i) /\ Naming(msgs'[i], e.name)) =>
              /\ Len(msgs'[i].handlerCalls) = 1
              /\ msgs'[i].handlerCalls[1].func = e.func ]_vars

\* The same for a one-character prefix and a name without capital letters.
C35_SharedTablePlain ==
    [][ \A i \in 1..MaxMsgs : \A e \in commandDict :
          (/\ PassesHook(i) /\ Naming(msgs'[i], e.name)
           /\ Len(prefix) = 1 /\ e.name = ToLowerCase(e.name)) =>
              /\ Len(msgs'[i].handlerCalls) = 1
              /\ msgs'[i].handlerCalls[1].func = e.func ]_vars

=============================================================================
